---- MODULE Spec2Model ----
(***************************************************************************)
(* Multi-agent pipeline (planner -> developer -> tester) with its metrics  *)
(* accumulators.                                                           *)
(*                                                                         *)
(*   core/metrics_utils.py   class MetricsTracker (dataclass buckets)      *)
(*   core/system_runner2.py  class MetricsTracker (dict buckets), the      *)
(*                           global metrics_tracker, log_status,           *)
(*                           run_agent, run_system                         *)
(*                                                                         *)
(* Python's None is the empty sequence and a present value v is <<v>>.     *)
(***************************************************************************)
EXTENDS Integers, Sequences, FiniteSets, TLC

VARIABLES
    tracker,          \* a metrics_utils.MetricsTracker() under direct calls
    metrics_tracker,  \* system_runner2.metrics_tracker, the module global
    now,              \* the wall clock read by datetime.now()
    nops,             \* number of direct tracker calls made so far
    pc,               \* where run_system / run_agent stands
    cb,               \* the status_callback argument of the invocation
    stage,            \* index of the stage run_system is in
    session,          \* per stage: the transport session of its run_agent
    loop,             \* per stage: state of its agent loop
    iteration_count,  \* run_agent local
    tool_calls_count, \* run_agent local
    tools,            \* run_agent local: names of the discovered tools
    messages,         \* run_agent local: the message list
    input_tokens,     \* run_agent local: estimate taken before the model call
    last_msg,         \* run_agent local: the turn the model returned
    tool_idx,         \* run_agent local: position in last_msg.tool_calls
    outputs,          \* planner_output, developer_output, tester_output
    result,           \* what run_system returned
    exc,              \* the exception in flight, or raised by run_system
    trace,            \* history: the answers of tool processes and model
    emitted,          \* history: tool-call requests the model has emitted
    loopStart,        \* history: per stage, metrics total when the loop began
    loopEnd,          \* history: per stage, metrics total when it returned
    ref,              \* history: the finished run a replay is compared with
    called,           \* history: the last direct call made on a tracker
    made,             \* history: per agent, the record_* calls made on tracker
    snap,             \* the last summary a get_summary() call returned
    tracking,         \* history: start/end_tracking calls of this invocation
    runs,             \* run_system invocations begun in this process
    file,             \* the metrics file save_to_file wrote last
    ownTimes,         \* history: the clock at this invocation's start/end_tracking
    other,            \* a second run_system invocation: where it stands
    shown             \* what interface_fn returned to the form

vars == <<tracker, metrics_tracker, now, nops, pc, cb, stage, session, loop,
          iteration_count, tool_calls_count, tools, messages, input_tokens,
          last_msg, tool_idx, outputs, result, exc, trace, emitted,
          loopStart, loopEnd, ref, called, made, snap, tracking, runs,
          file, ownTimes, other, shown>>

trackerVars == <<tracker, nops, called, made, snap>>

runVars == <<pc, cb, stage, session, loop, iteration_count, tool_calls_count,
             tools, messages, input_tokens, last_msg, tool_idx, outputs,
             result, exc, trace, emitted, loopStart, loopEnd, ref, tracking,
             runs, shown>>

None == << >>

Some(v) == <<v>>

(***************************************************************************)
(* Bounds of the model.                                                    *)
(***************************************************************************)
\* direct calls made on the trackers in SpecTracker
MaxOps == 3

\* clock ticks in SpecTracker
MaxTime == 2

\* tool-call requests the model emits over the run_system invocations of one
\* process
MaxRequests == 3

\* tool-call requests in one assistant turn
MaxCalls == 2

\* run_system invocations made one after the other in one process
MaxRuns == 2

(***************************************************************************)
(* core/metrics_utils.py                                                   *)
(***************************************************************************)
AgentMetrics ==
    [api_calls |-> 0, input_tokens |-> 0, output_tokens |-> 0,
     total_tokens |-> 0, tool_calls |-> 0, iterations |-> 0, errors |-> 0]

\* total_tokens grows by the input tokens only
add_api_call_InputOnly(m, in_tok, out_tok) ==
    [m EXCEPT !.api_calls = @ + 1,
              !.input_tokens = @ + in_tok,
              !.output_tokens = @ + out_tok,
              !.total_tokens = @ + in_tok]

add_api_call(m, in_tok, out_tok) ==
    [m EXCEPT !.api_calls = @ + 1,
              !.input_tokens = @ + in_tok,
              !.output_tokens = @ + out_tok,
              !.total_tokens = @ + (in_tok + out_tok)]

\* a tool call that is counted as an iteration as well
add_tool_call_AlsoIteration(m) ==
    [m EXCEPT !.tool_calls = @ + 1, !.iterations = @ + 1]

add_tool_call(m) == [m EXCEPT !.tool_calls = @ + 1]

\* an iteration that is counted as an error as well
add_iteration_AlsoError(m) == [m EXCEPT !.iterations = @ + 1, !.errors = @ + 1]

add_iteration(m) == [m EXCEPT !.iterations = @ + 1]

\* an error that starts the iterations of the bucket anew
add_error_ClearsIterations(m) == [m EXCEPT !.errors = @ + 1, !.iterations = 0]

add_error(m) == [m EXCEPT !.errors = @ + 1]

\* asdict(self): a new dict holding the seven fields
\* a serialization that leaves the error count behind
to_dict_WithoutErrors(m) ==
    [api_calls |-> m.api_calls, input_tokens |-> m.input_tokens,
     output_tokens |-> m.output_tokens, total_tokens |-> m.total_tokens,
     tool_calls |-> m.tool_calls, iterations |-> m.iterations,
     errors |-> 0]

to_dict(m) ==
    [api_calls |-> m.api_calls, input_tokens |-> m.input_tokens,
     output_tokens |-> m.output_tokens, total_tokens |-> m.total_tokens,
     tool_calls |-> m.tool_calls, iterations |-> m.iterations,
     errors |-> m.errors]

\* datetime.isoformat(): the text of a timestamp
isoformat(t) == [iso |-> t]

\* self.metrics[name] = value on a dict
SetItem(d, name, value) ==
    [x \in (DOMAIN d) \cup {name} |-> IF x = name THEN value ELSE d[x]]

\* MetricsTracker.__init__(agent_names=None) at clock value t
MetricsTracker_init(t) ==
    [metrics |-> [a \in {"planner", "developer", "tester", "total"} |-> AgentMetrics],
     start_time |-> None,
     end_time |-> None,
     session_id |-> t]

start_tracking(self, t) == [self EXCEPT !.start_time = Some(t)]

end_tracking(self, t) == [self EXCEPT !.end_time = Some(t)]

get_duration(self) ==
    IF self.start_time # None /\ self.end_time # None
    THEN self.end_time[1] - self.start_time[1]
    ELSE 0

record_api_call(self, agent_name, in_tok, out_tok) ==
    LET created == IF agent_name \in DOMAIN self.metrics
                   THEN self.metrics
                   ELSE SetItem(self.metrics, agent_name, AgentMetrics)
        own == [created EXCEPT ![agent_name] = add_api_call(@, in_tok, out_tok)]
    IN [self EXCEPT !.metrics = [own EXCEPT !["total"] = add_api_call(@, in_tok, out_tok)]]

record_tool_call(self, agent_name) ==
    IF agent_name \notin DOMAIN self.metrics
    THEN self
    ELSE LET own == [self.metrics EXCEPT ![agent_name] = add_tool_call(@)]
         IN [self EXCEPT !.metrics = [own EXCEPT !["total"] = add_tool_call(@)]]

record_iteration(self, agent_name) ==
    IF agent_name \notin DOMAIN self.metrics
    THEN self
    ELSE LET own == [self.metrics EXCEPT ![agent_name] = add_iteration(@)]
         IN [self EXCEPT !.metrics = [own EXCEPT !["total"] = add_iteration(@)]]

record_error(self, agent_name) ==
    IF agent_name \notin DOMAIN self.metrics
    THEN self
    ELSE LET own == [self.metrics EXCEPT ![agent_name] = add_error(@)]
         IN [self EXCEPT !.metrics = [own EXCEPT !["total"] = add_error(@)]]

\* the dict is built anew from to_dict() of every bucket
get_summary(self) ==
    [session_id |-> self.session_id,
     start_time |-> IF self.start_time # None
                    THEN Some(isoformat(self.start_time[1])) ELSE None,
     end_time |-> IF self.end_time # None
                  THEN Some(isoformat(self.end_time[1])) ELSE None,
     execution_time_seconds |-> get_duration(self),
     metrics |-> [name \in DOMAIN self.metrics |-> to_dict(self.metrics[name])]]

\* a reset that builds the dict of the constructor anew
reset_DefaultBuckets(self, t) ==
    [metrics |-> [a \in {"planner", "developer", "tester", "total"} |-> AgentMetrics],
     start_time |-> None,
     end_time |-> None,
     session_id |-> t]

\* lines 268-283: the buckets are zeroed in place
reset(self, t) ==
    [metrics |-> [a \in DOMAIN self.metrics |-> AgentMetrics],
     start_time |-> None,
     end_time |-> None,
     session_id |-> t]

(***************************************************************************)
(* json.dump / json.load on a summary.  A JSON text is a tree of tagged    *)
(* values: Python's None is written as null, a number as a number, a str   *)
(* as a string, a dict as an object; json.load reads each back as the      *)
(* Python value of its tag.                                                *)
(***************************************************************************)
JNull == [json |-> "null"]

JNumber(n) == [json |-> "number", v |-> n]

JString(text) == [json |-> "string", v |-> text]

JObject(members) == [json |-> "object", members |-> members]

\* json.dump of a value that is None or a str
JOptional(v) == IF v = None THEN JNull ELSE JString(v[1])

\* json.dump(self.get_summary(), f, ...) (line 261)
json_dump(summary) ==
    JObject(
        [session_id |-> JString(summary.session_id),
         start_time |-> JOptional(summary.start_time),
         end_time |-> JOptional(summary.end_time),
         execution_time_seconds |-> JNumber(summary.execution_time_seconds),
         metrics |-> JObject(
            [name \in DOMAIN summary.metrics |->
                JObject([k \in DOMAIN summary.metrics[name] |->
                            JNumber(summary.metrics[name][k])])])])

RECURSIVE json_load(_)
json_load(text) ==
    CASE text.json = "null" -> None
      [] text.json = "number" -> text.v
      [] text.json = "string" -> text.v
      [] text.json = "object" ->
            [k \in DOMAIN text.members |-> json_load(text.members[k])]

\* lines 241-266 with the default arguments: the file written and its text
save_to_file(self) ==
    [path |-> <<"metrics", self.session_id>>,
     text |-> json_dump(get_summary(self))]

(***************************************************************************)
(* core/system_runner2.py: class MetricsTracker                            *)
(***************************************************************************)
RunnerBucket ==
    [api_calls |-> 0, input_tokens |-> 0, output_tokens |-> 0,
     total_tokens |-> 0, tool_calls |-> 0, iterations |-> 0]

Runner_init ==
    [metrics |-> [a \in {"planner", "developer", "tester", "total"} |-> RunnerBucket],
     start_time |-> None,
     end_time |-> None]

Runner_start_tracking(self, t) == [self EXCEPT !.start_time = Some(t)]

\* end_time not stored
Runner_end_tracking_Unset(self, t) == self

\* line 57.  run_system calls this with start_time set; for a call with
\* start_time None see Runner_end_tracking_raises
Runner_end_tracking(self, t) == [self EXCEPT !.end_time = Some(t)]

\* line 58: self.end_time - self.start_time with start_time None is a
\* TypeError, raised after line 57 stored end_time
Runner_end_tracking_raises(self) == self.start_time = None

\* total_tokens grows by the output tokens only
Runner_bump_api_OutputOnly(b, in_tok, out_tok) ==
    [b EXCEPT !.api_calls = @ + 1,
              !.input_tokens = @ + in_tok,
              !.output_tokens = @ + out_tok,
              !.total_tokens = @ + out_tok]

Runner_bump_api(b, in_tok, out_tok) ==
    [b EXCEPT !.api_calls = @ + 1,
              !.input_tokens = @ + in_tok,
              !.output_tokens = @ + out_tok,
              !.total_tokens = @ + (in_tok + out_tok)]

Runner_record_api_call(self, agent_name, in_tok, out_tok) ==
    IF agent_name \notin DOMAIN self.metrics
    THEN self
    ELSE LET own == [self.metrics EXCEPT ![agent_name] = Runner_bump_api(@, in_tok, out_tok)]
         IN [self EXCEPT !.metrics =
                [own EXCEPT !["total"] = Runner_bump_api(@, in_tok, out_tok)]]

\* the total bucket forgotten
Runner_record_tool_call_OwnOnly(self, agent_name) ==
    IF agent_name \notin DOMAIN self.metrics
    THEN self
    ELSE [self EXCEPT !.metrics[agent_name].tool_calls = @ + 1]

Runner_record_tool_call(self, agent_name) ==
    IF agent_name \notin DOMAIN self.metrics
    THEN self
    ELSE LET own == [self.metrics EXCEPT ![agent_name].tool_calls = @ + 1]
         IN [self EXCEPT !.metrics = [own EXCEPT !["total"].tool_calls = @ + 1]]

Runner_record_iteration(self, agent_name) ==
    IF agent_name \notin DOMAIN self.metrics
    THEN self
    ELSE LET own == [self.metrics EXCEPT ![agent_name].iterations = @ + 1]
         IN [self EXCEPT !.metrics = [own EXCEPT !["total"].iterations = @ + 1]]

\* line 96: the subtraction is evaluated whenever end_time is set
Runner_get_summary_raises(self) ==
    self.end_time # None /\ self.start_time = None

\* 'metrics' is the tracker's own dict, not a copy of it
Runner_get_summary(self) ==
    [metrics |-> "metrics_tracker.metrics",
     execution_time_seconds |->
        IF self.end_time # None THEN self.end_time[1] - self.start_time[1] ELSE 0]

\* what summary['metrics'] reads: the dict the summary holds, which for a
\* summary of metrics_tracker is the tracker's own dict as it is now
SummaryMetrics(of, summary, global) ==
    IF of = "metrics_tracker" THEN global.metrics ELSE summary.metrics

(***************************************************************************)
(* The state after the modules are loaded: metrics_tracker is built at     *)
(* import (system_runner2.py line 134) and run_system has not been called. *)
(***************************************************************************)
\* agent_names when the constructor is given none (metrics_utils.py line 83)
KnownAgents == {"planner", "developer", "tester"}

\* a direct call: the tracker it was made on, the method, its arguments and
\* whether it raised
Call(on, op, agent, tok, raised) ==
    [on |-> on, op |-> op, agent |-> agent, tok |-> tok, raised |-> raised]

NoCall == Call("", "", "", <<0, 0>>, FALSE)

\* calls made for one agent since the tracker was constructed or reset, and
\* the token arguments they carried
NoneMade ==
    [record_api_call |-> 0, in_tok |-> 0, out_tok |-> 0,
     record_tool_call |-> 0, record_iteration |-> 0, record_error |-> 0]

Tally(m, op, agent, tok) ==
    IF agent \notin KnownAgents
    THEN m
    ELSE IF op = "record_api_call"
         THEN [m EXCEPT ![agent].record_api_call = @ + 1,
                        ![agent].in_tok = @ + tok[1],
                        ![agent].out_tok = @ + tok[2]]
         ELSE [m EXCEPT ![agent][op] = @ + 1]

\* a returned summary: whose it is, the dict, and what its 'metrics' read
\* when it was returned
Summary(of, summary, global) ==
    [of |-> of, summary |-> Some(summary),
     seen |-> Some(SummaryMetrics(of, summary, global))]

NoSummary == [of |-> "", summary |-> None, seen |-> None]

\* start_tracking and end_tracking calls made by the current invocation
NoTracking == [starts |-> 0, ends |-> 0]

\* the clock values an invocation's start_tracking and end_tracking stored
NoTimes == [start_time |-> None, end_time |-> None]

\* the second invocation has not been called
NoOther == [pc |-> "idle", stage |-> 0]

Stages == 1..3

AgentOf(s) == <<"planner", "developer", "tester">>[s]

Init ==
    /\ tracker = MetricsTracker_init(0)
    /\ metrics_tracker = Runner_init
    /\ now = 0
    /\ nops = 0
    /\ pc = "idle"
    /\ cb = "none"
    /\ stage = 0
    /\ session = [s \in Stages |-> "unopened"]
    /\ loop = [s \in Stages |-> "notstarted"]
    /\ iteration_count = 0
    /\ tool_calls_count = 0
    /\ tools = {}
    /\ messages = << >>
    /\ input_tokens = 0
    /\ last_msg = None
    /\ tool_idx = 0
    /\ outputs = [s \in Stages |-> None]
    /\ result = None
    /\ exc = None
    /\ trace = << >>
    /\ emitted = 0
    /\ loopStart = [s \in Stages |-> None]
    /\ loopEnd = [s \in Stages |-> None]
    /\ ref = None
    /\ called = NoCall
    /\ made = [a \in KnownAgents |-> NoneMade]
    /\ snap = NoSummary
    /\ tracking = NoTracking
    /\ runs = 0
    /\ file = None
    /\ ownTimes = NoTimes
    /\ other = NoOther
    /\ shown = None

(***************************************************************************)
(* Direct calls on the two trackers, with any agent-name argument.  The    *)
(* two objects share no state; a behaviour makes its calls on one of them. *)
(***************************************************************************)
CallsOn(on) == called.on \in {"", on}

\* the three default buckets, the total bucket, and a name with no bucket
AgentArgs == {"planner", "developer", "tester", "total", "reviewer"}

\* (input_tokens, output_tokens) arguments
TokenArgs == {<<0, 0>>, <<2, 1>>}

RecordApiCall ==
    /\ nops < MaxOps
    /\ CallsOn("tracker")
    /\ \E a \in AgentArgs, tk \in TokenArgs :
          /\ tracker' = record_api_call(tracker, a, tk[1], tk[2])
          /\ called' = Call("tracker", "record_api_call", a, tk, FALSE)
          /\ made' = Tally(made, "record_api_call", a, tk)
    /\ nops' = nops + 1
    /\ UNCHANGED <<metrics_tracker, now, snap, file, ownTimes, other, runVars>>

RecordToolCall ==
    /\ nops < MaxOps
    /\ CallsOn("tracker")
    /\ \E a \in AgentArgs :
          /\ tracker' = record_tool_call(tracker, a)
          /\ called' = Call("tracker", "record_tool_call", a, <<0, 0>>, FALSE)
          /\ made' = Tally(made, "record_tool_call", a, <<0, 0>>)
    /\ nops' = nops + 1
    /\ UNCHANGED <<metrics_tracker, now, snap, file, ownTimes, other, runVars>>

RecordIteration ==
    /\ nops < MaxOps
    /\ CallsOn("tracker")
    /\ \E a \in AgentArgs :
          /\ tracker' = record_iteration(tracker, a)
          /\ called' = Call("tracker", "record_iteration", a, <<0, 0>>, FALSE)
          /\ made' = Tally(made, "record_iteration", a, <<0, 0>>)
    /\ nops' = nops + 1
    /\ UNCHANGED <<metrics_tracker, now, snap, file, ownTimes, other, runVars>>

RecordError ==
    /\ nops < MaxOps
    /\ CallsOn("tracker")
    /\ \E a \in AgentArgs :
          /\ tracker' = record_error(tracker, a)
          /\ called' = Call("tracker", "record_error", a, <<0, 0>>, FALSE)
          /\ made' = Tally(made, "record_error", a, <<0, 0>>)
    /\ nops' = nops + 1
    /\ UNCHANGED <<metrics_tracker, now, snap, file, ownTimes, other, runVars>>

StartTracking ==
    /\ nops < MaxOps
    /\ CallsOn("tracker")
    /\ tracker' = start_tracking(tracker, now)
    /\ called' = Call("tracker", "start_tracking", "", <<0, 0>>, FALSE)
    /\ nops' = nops + 1
    /\ UNCHANGED <<metrics_tracker, now, made, snap, file, ownTimes, other, runVars>>

EndTracking ==
    /\ nops < MaxOps
    /\ CallsOn("tracker")
    /\ tracker' = end_tracking(tracker, now)
    /\ called' = Call("tracker", "end_tracking", "", <<0, 0>>, FALSE)
    /\ nops' = nops + 1
    /\ UNCHANGED <<metrics_tracker, now, made, snap, file, ownTimes, other, runVars>>

Reset ==
    /\ nops < MaxOps
    /\ CallsOn("tracker")
    /\ tracker' = reset(tracker, now)
    /\ called' = Call("tracker", "reset", "", <<0, 0>>, FALSE)
    /\ made' = [a \in KnownAgents |-> NoneMade]
    /\ nops' = nops + 1
    /\ UNCHANGED <<metrics_tracker, now, snap, file, ownTimes, other, runVars>>

\* metrics_utils.py lines 171-188
GetSummary ==
    /\ nops < MaxOps
    /\ CallsOn("tracker")
    /\ called' = Call("tracker", "get_summary", "", <<0, 0>>, FALSE)
    /\ snap' = Summary("tracker", get_summary(tracker), metrics_tracker)
    /\ nops' = nops + 1
    /\ UNCHANGED <<tracker, metrics_tracker, now, made, file, ownTimes, other, runVars>>

\* metrics_utils.py lines 241-266
SaveToFile ==
    /\ nops < MaxOps
    /\ CallsOn("tracker")
    /\ file' = Some(save_to_file(tracker))
    /\ called' = Call("tracker", "save_to_file", "", <<0, 0>>, FALSE)
    /\ nops' = nops + 1
    /\ UNCHANGED <<tracker, metrics_tracker, now, made, snap, ownTimes, other, runVars>>

\* time passes between two calls
Tick ==
    /\ now < MaxTime
    /\ now' = now + 1
    /\ UNCHANGED <<tracker, metrics_tracker, nops, called, made, snap, file, ownTimes, other, runVars>>

RunnerRecordApiCall ==
    /\ nops < MaxOps
    /\ CallsOn("metrics_tracker")
    /\ \E a \in AgentArgs, tk \in TokenArgs :
          /\ metrics_tracker' = Runner_record_api_call(metrics_tracker, a, tk[1], tk[2])
          /\ called' = Call("metrics_tracker", "record_api_call", a, tk, FALSE)
    /\ nops' = nops + 1
    /\ UNCHANGED <<tracker, now, made, snap, file, ownTimes, other, runVars>>

RunnerRecordToolCall ==
    /\ nops < MaxOps
    /\ CallsOn("metrics_tracker")
    /\ \E a \in AgentArgs :
          /\ metrics_tracker' = Runner_record_tool_call(metrics_tracker, a)
          /\ called' = Call("metrics_tracker", "record_tool_call", a, <<0, 0>>, FALSE)
    /\ nops' = nops + 1
    /\ UNCHANGED <<tracker, now, made, snap, file, ownTimes, other, runVars>>

RunnerRecordIteration ==
    /\ nops < MaxOps
    /\ CallsOn("metrics_tracker")
    /\ \E a \in AgentArgs :
          /\ metrics_tracker' = Runner_record_iteration(metrics_tracker, a)
          /\ called' = Call("metrics_tracker", "record_iteration", a, <<0, 0>>, FALSE)
    /\ nops' = nops + 1
    /\ UNCHANGED <<tracker, now, made, snap, file, ownTimes, other, runVars>>

\* system_runner2.py lines 50-53
RunnerStartTracking ==
    /\ nops < MaxOps
    /\ CallsOn("metrics_tracker")
    /\ metrics_tracker' = Runner_start_tracking(metrics_tracker, now)
    /\ called' = Call("metrics_tracker", "start_tracking", "", <<0, 0>>, FALSE)
    /\ nops' = nops + 1
    /\ UNCHANGED <<tracker, now, made, snap, file, ownTimes, other, runVars>>

\* system_runner2.py lines 55-59: end_time is stored, then the duration is
\* computed for the log line
RunnerEndTracking ==
    /\ nops < MaxOps
    /\ CallsOn("metrics_tracker")
    /\ metrics_tracker' = Runner_end_tracking(metrics_tracker, now)
    /\ called' = Call("metrics_tracker", "end_tracking", "", <<0, 0>>,
                      Runner_end_tracking_raises(metrics_tracker))
    /\ nops' = nops + 1
    /\ UNCHANGED <<tracker, now, made, snap, file, ownTimes, other, runVars>>

\* system_runner2.py lines 94-101
RunnerGetSummary ==
    /\ nops < MaxOps
    /\ CallsOn("metrics_tracker")
    /\ IF Runner_get_summary_raises(metrics_tracker)
       THEN /\ called' = Call("metrics_tracker", "get_summary", "", <<0, 0>>, TRUE)
            /\ snap' = snap
       ELSE /\ called' = Call("metrics_tracker", "get_summary", "", <<0, 0>>, FALSE)
            /\ snap' = Summary("metrics_tracker",
                               Runner_get_summary(metrics_tracker), metrics_tracker)
    /\ nops' = nops + 1
    /\ UNCHANGED <<tracker, metrics_tracker, now, made, file, ownTimes, other, runVars>>

NextTracker ==
    \/ RecordApiCall
    \/ RecordToolCall
    \/ RecordIteration
    \/ RecordError
    \/ StartTracking
    \/ EndTracking
    \/ Reset
    \/ Tick
    \/ RunnerRecordApiCall
    \/ RunnerRecordToolCall
    \/ RunnerRecordIteration
    \/ GetSummary
    \/ SaveToFile
    \/ RunnerStartTracking
    \/ RunnerEndTracking
    \/ RunnerGetSummary

SpecTracker == Init /\ [][NextTracker]_vars

(***************************************************************************)
(* core/system_runner2.py: what run_agent and run_system talk to.          *)
(*                                                                         *)
(* The tool processes and the model are the environment.  Each answer they *)
(* give is appended to trace.  While ref holds a finished run, the         *)
(* environment repeats that run's answers one by one (the same model and   *)
(* tool behaviour); otherwise every answer is free.                        *)
(***************************************************************************)
\* tools each server registers with @mcp.tool(); run_agent uses the loaded
\* tools as a mapping from name to tool (tools.keys(), tools.get(name))
ToolsOf(s) ==
    CASE s = 1 -> {"create_plan"}
      [] s = 2 -> {"write_file", "read_file", "list_files", "create_folder"}
      [] s = 3 -> {"find_python_files", "read_file", "generate_tests",
                   "write_file", "list_files", "generate_tests_for_all"}

\* names the model asks for: each stage knows one of them and not the other
RequestNames == {"create_plan", "read_file"}

\* a tool returns a value, returns an error text as its value (read_file:
\* "File not found: ..."), or the invocation raises
ToolAnswers(name) ==
    IF name = "read_file" THEN {"value", "error_value", "raise"} ELSE {"value", "raise"}

Event(kind, s, res, reqs) == [kind |-> kind, stage |-> s, res |-> res, reqs |-> reqs]

Replays(e) ==
    IF ref = None
    THEN TRUE
    ELSE /\ Len(trace) < Len(ref[1].trace)
         /\ ref[1].trace[Len(trace) + 1] = e

\* the tool-call requests one assistant turn may carry; call ids are unique
TurnRequests ==
    LET room == IF MaxRequests - emitted < MaxCalls THEN MaxRequests - emitted ELSE MaxCalls
    IN UNION {[1..n -> RequestNames] : n \in 0..room}

WithIds(names) == [i \in 1..Len(names) |-> [name |-> names[i], id |-> emitted + i]]

\* len(str(content)) of the texts that occur
StrLen(text) ==
    CASE text = "" -> 0
      [] text = "answer" -> 13
      [] text = "prompt" -> 40
      [] text = "value" -> 9
      [] text = "error_value" -> 18
      [] text = "project" -> 22
      [] text = "previous" -> 61

\* the turn the model returns: tool-call turns carry no text
AIMessage(reqs) ==
    [content |-> IF reqs = << >> THEN "answer" ELSE "", tool_calls |-> reqs]

(***************************************************************************)
(* log_status (lines 148-164): the callback, when given, is awaited and    *)
(* whatever it raises leaves log_status.                                   *)
(***************************************************************************)
log_status(status_callback) ==
    IF status_callback = "none" THEN {"returned"} ELSE {"returned", "raised"}

(***************************************************************************)
(* run_agent (lines 169-319)                                               *)
(***************************************************************************)
\* a count that starts at 1 and is never advanced again
NextIteration_CountsOnce(n) == IF n = 0 THEN 1 ELSE n

\* line 210
NextIteration(n) == n + 1

\* line 227
NextToolCall(n) == n + 1

\* line 215 and 221: len(str(content)) // 4
EstimateTokens(len) == len \div 4

\* an estimate taken from the newest message alone
SumTokens_LastOnly(msgs) ==
    IF msgs = << >>
    THEN 0
    ELSE EstimateTokens(StrLen(msgs[Len(msgs)].content))

RECURSIVE SumTokens(_)
SumTokens(msgs) ==
    IF msgs = << >>
    THEN 0
    ELSE EstimateTokens(StrLen(Head(msgs).content)) + SumTokens(Tail(msgs))

\* the Human message built from the project description in every stage
InitialMessages_FromProject(input_data) ==
    << [type |-> "system", content |-> "prompt", tool_call_id |-> 0, input |-> None],
       [type |-> "human", content |-> "project", tool_call_id |-> 0,
        input |-> Some([from |-> 0, output |-> None])] >>

\* lines 201-204
InitialMessages(input_data) ==
    << [type |-> "system", content |-> "prompt", tool_call_id |-> 0, input |-> None],
       [type |-> "human",
        content |-> IF input_data.from = 0 THEN "project" ELSE "previous",
        tool_call_id |-> 0,
        input |-> Some(input_data)] >>

\* lines 259-264
ToolMessage(tool_output, id) ==
    [type |-> "tool", content |-> tool_output, tool_call_id |-> id, input |-> None]

\* lines 304-311
FinalResponse(msg, iterations, tool_calls, agent_name) ==
    [raw |-> msg.content,
     metadata |-> [iterations |-> iterations, tool_calls |-> tool_calls,
                   agent |-> agent_name]]

\* a lookup that never fails
Resolves_Anything(discovered, tool_name) == TRUE

\* lines 239-240: tools.get(tool_name) is not None
Resolves(discovered, tool_name) == tool_name \in discovered

\* a session that is not torn down
ExitSession_Leak(sess, s) == sess

\* leaving the two "async with" blocks of lines 190-191
ExitSession(sess, s) == [sess EXCEPT ![s] = "closed"]

\* a failure after which the loop goes on with its next iteration
Fails_Retry(kind) ==
    /\ pc' = "ra_iterate"
    /\ exc' = exc

\* an exception inside the try of line 192: control goes to line 316
Fails(kind) ==
    /\ pc' = "ra_except"
    /\ exc' = Some(kind)

\* lines 179-188
RunAgent_Enter ==
    /\ pc = "ra_enter"
    /\ loopStart' = [loopStart EXCEPT ![stage] = Some(metrics_tracker.metrics["total"])]
    /\ tool_calls_count' = 0
    /\ iteration_count' = 0
    /\ messages' = << >>
    /\ tools' = {}
    /\ last_msg' = None
    /\ tool_idx' = 0
    /\ input_tokens' = 0
    /\ \E o \in log_status(cb) :
          IF o = "raised"
          THEN /\ pc' = "rs_except"
               /\ exc' = Some("callback")
               /\ loop' = [loop EXCEPT ![stage] = "failed"]
          ELSE /\ pc' = "ra_open"
               /\ exc' = exc
               /\ loop' = [loop EXCEPT ![stage] = "running"]
    /\ UNCHANGED <<tracker, called, made, snap, file, shown, ownTimes, other, metrics_tracker, now, nops, cb, stage, session,
                   outputs, result, trace, emitted, loopEnd, ref,
                   tracking, runs>>

\* lines 190-191: spawn the server process and enter the client session
RunAgent_Open ==
    /\ pc = "ra_open"
    /\ \E res \in {"ok", "raise"} :
          /\ Replays(Event("open", stage, res, << >>))
          /\ trace' = Append(trace, Event("open", stage, res, << >>))
          /\ IF res = "raise"
             THEN /\ pc' = "rs_except"
                  /\ exc' = Some("launch")
                  /\ loop' = [loop EXCEPT ![stage] = "failed"]
                  /\ session' = session
             ELSE /\ pc' = "ra_initialize"
                  /\ exc' = exc
                  /\ loop' = loop
                  /\ session' = [session EXCEPT ![stage] = "open"]
    /\ UNCHANGED <<tracker, called, made, snap, file, shown, ownTimes, other, metrics_tracker, now, nops, cb, stage,
                   iteration_count, tool_calls_count, tools, messages,
                   input_tokens, last_msg, tool_idx, outputs, result, emitted,
                   loopStart, loopEnd, ref,
                   tracking, runs>>

\* lines 193-194
RunAgent_Initialize ==
    /\ pc = "ra_initialize"
    /\ \E res \in {"ok", "raise"} :
          /\ Replays(Event("initialize", stage, res, << >>))
          /\ trace' = Append(trace, Event("initialize", stage, res, << >>))
          /\ IF res = "raise"
             THEN Fails("handshake")
             ELSE \E o \in log_status(cb) :
                     IF o = "raised"
                     THEN Fails("callback")
                     ELSE pc' = "ra_load_tools" /\ exc' = exc
    /\ UNCHANGED <<tracker, called, made, snap, file, shown, ownTimes, other, metrics_tracker, now, nops, cb, stage, session, loop,
                   iteration_count, tool_calls_count, tools, messages,
                   input_tokens, last_msg, tool_idx, outputs, result, emitted,
                   loopStart, loopEnd, ref,
                   tracking, runs>>

\* lines 196-206; input_data is what run_system passed for this stage
RunAgent_LoadTools ==
    /\ pc = "ra_load_tools"
    /\ \E res \in {"ok", "raise"} :
          /\ Replays(Event("load_tools", stage, res, << >>))
          /\ trace' = Append(trace, Event("load_tools", stage, res, << >>))
          /\ IF res = "raise"
             THEN Fails("discovery") /\ UNCHANGED <<tools, messages>>
             ELSE /\ tools' = ToolsOf(stage)
                  /\ \E o \in log_status(cb) :
                        IF o = "raised"
                        THEN Fails("callback") /\ messages' = messages
                        ELSE /\ pc' = "ra_iterate"
                             /\ exc' = exc
                             /\ messages' = InitialMessages(
                                   [from |-> stage - 1,
                                    output |-> IF stage = 1 THEN None ELSE outputs[stage - 1]])
    /\ UNCHANGED <<tracker, called, made, snap, file, shown, ownTimes, other, metrics_tracker, now, nops, cb, stage, session, loop,
                   iteration_count, tool_calls_count, input_tokens, last_msg,
                   tool_idx, outputs, result, emitted, loopStart, loopEnd, ref,
                   tracking, runs>>

\* lines 209-215: the head of the while loop, up to the model call
RunAgent_Iterate ==
    /\ pc = "ra_iterate"
    /\ iteration_count' = NextIteration(iteration_count)
    /\ metrics_tracker' = Runner_record_iteration(metrics_tracker, AgentOf(stage))
    /\ \E o \in log_status(cb) :
          IF o = "raised"
          THEN Fails("callback") /\ input_tokens' = input_tokens
          ELSE /\ pc' = "ra_model"
               /\ exc' = exc
               /\ input_tokens' = SumTokens(messages)
    /\ UNCHANGED <<tracker, called, made, snap, file, shown, ownTimes, other, now, nops, cb, stage, session, loop, tool_calls_count,
                   tools, messages, last_msg, tool_idx, outputs, result, trace,
                   emitted, loopStart, loopEnd, ref,
                   tracking, runs>>

\* lines 217-225 and 297: the model call returns or raises.  The last message
\* of the answer is an AIMessage (the assistant's turn); the branch of lines
\* 267-295 for an answer that ends with a ToolMessage is not taken.  One unit
\* of time passes while the call is awaited.
RunAgent_Model ==
    /\ pc = "ra_model"
    /\ now' = now + 1
    /\ \/ /\ Replays(Event("model", stage, "raise", << >>))
          /\ trace' = Append(trace, Event("model", stage, "raise", << >>))
          /\ Fails("model")
          /\ UNCHANGED <<metrics_tracker, last_msg, tool_idx, emitted>>
       \/ \E names \in TurnRequests :
             LET msg == AIMessage(WithIds(names))
                 e == Event("model", stage, "turn", msg.tool_calls)
             IN /\ Replays(e)
                /\ trace' = Append(trace, e)
                /\ emitted' = emitted + Len(names)
                /\ last_msg' = Some(msg)
                /\ metrics_tracker' = Runner_record_api_call(
                      metrics_tracker, AgentOf(stage), input_tokens,
                      EstimateTokens(StrLen(msg.content)))
                /\ exc' = exc
                /\ IF msg.tool_calls # << >>
                   THEN pc' = "ra_tool_call" /\ tool_idx' = 1
                   ELSE pc' = "ra_return" /\ tool_idx' = tool_idx
    /\ UNCHANGED <<tracker, called, made, snap, file, shown, ownTimes, other, nops, cb, stage, session, loop, iteration_count,
                   tool_calls_count, tools, messages, input_tokens, outputs,
                   result, loopStart, loopEnd, ref,
                   tracking, runs>>

\* the name resolved first, and the request counted only when it resolves
RunAgent_ToolCall_LookupFirst ==
    /\ pc = "ra_tool_call"
    /\ IF Resolves(tools, last_msg[1].tool_calls[tool_idx].name)
       THEN /\ tool_calls_count' = NextToolCall(tool_calls_count)
            /\ metrics_tracker' = Runner_record_tool_call(metrics_tracker, AgentOf(stage))
       ELSE UNCHANGED <<tool_calls_count, metrics_tracker>>
    /\ \E o \in log_status(cb) :
          IF o = "raised"
          THEN Fails("callback")
          ELSE IF ~Resolves(tools, last_msg[1].tool_calls[tool_idx].name)
               THEN \E o2 \in log_status(cb) :
                       Fails(IF o2 = "raised" THEN "callback" ELSE "unknown_tool")
               ELSE pc' = "ra_invoke" /\ exc' = exc
    /\ UNCHANGED <<tracker, called, made, snap, file, shown, ownTimes, other, now, nops, cb, stage, session, loop, iteration_count,
                   tools, messages, input_tokens, last_msg, tool_idx, outputs,
                   result, trace, emitted, loopStart, loopEnd, ref,
                   tracking, runs>>

\* lines 226-243: count the request, then resolve its name
RunAgent_ToolCall ==
    /\ pc = "ra_tool_call"
    /\ tool_calls_count' = NextToolCall(tool_calls_count)
    /\ metrics_tracker' = Runner_record_tool_call(metrics_tracker, AgentOf(stage))
    /\ \E o \in log_status(cb) :
          IF o = "raised"
          THEN Fails("callback")
          ELSE IF ~Resolves(tools, last_msg[1].tool_calls[tool_idx].name)
               THEN \E o2 \in log_status(cb) :
                       Fails(IF o2 = "raised" THEN "callback" ELSE "unknown_tool")
               ELSE pc' = "ra_invoke" /\ exc' = exc
    /\ UNCHANGED <<tracker, called, made, snap, file, shown, ownTimes, other, now, nops, cb, stage, session, loop, iteration_count,
                   tools, messages, input_tokens, last_msg, tool_idx, outputs,
                   result, trace, emitted, loopStart, loopEnd, ref,
                   tracking, runs>>

\* the requests of a turn taken last to first
RunAgent_Invoke_Reversed ==
    /\ pc = "ra_invoke"
    /\ LET n == Len(last_msg[1].tool_calls)
           req == last_msg[1].tool_calls[n - tool_idx + 1]
       IN \E res \in ToolAnswers(req.name) :
             /\ Replays(Event("tool", stage, res, <<req>>))
             /\ trace' = Append(trace, Event("tool", stage, res, <<req>>))
             /\ IF res = "raise"
                THEN /\ \E o \in log_status(cb) :
                           Fails(IF o = "raised" THEN "callback" ELSE "tool")
                     /\ UNCHANGED <<messages, tool_idx>>
                ELSE \E o \in log_status(cb) :
                        IF o = "raised"
                        THEN Fails("callback") /\ UNCHANGED <<messages, tool_idx>>
                        ELSE /\ messages' = Append(messages, ToolMessage(res, req.id))
                             /\ exc' = exc
                             /\ IF tool_idx < n
                                THEN pc' = "ra_tool_call" /\ tool_idx' = tool_idx + 1
                                ELSE pc' = "ra_iterate" /\ tool_idx' = tool_idx
    /\ UNCHANGED <<tracker, called, made, snap, file, shown, ownTimes, other, metrics_tracker, now, nops, cb,
                   stage, session, loop, iteration_count, tool_calls_count,
                   tools, input_tokens, last_msg, outputs, result, emitted,
                   loopStart, loopEnd, ref, tracking, runs>>

\* lines 245-265: the invocation returns or raises; a callback failure on
\* line 248 is inside the inner try and takes the same path as a tool failure
RunAgent_Invoke ==
    /\ pc = "ra_invoke"
    /\ LET req == last_msg[1].tool_calls[tool_idx]
       IN \E res \in ToolAnswers(req.name) :
             /\ Replays(Event("tool", stage, res, <<req>>))
             /\ trace' = Append(trace, Event("tool", stage, res, <<req>>))
             /\ IF res = "raise"
                THEN /\ \E o \in log_status(cb) :
                           Fails(IF o = "raised" THEN "callback" ELSE "tool")
                     /\ UNCHANGED <<messages, tool_idx>>
                ELSE \E o \in log_status(cb) :
                        IF o = "raised"
                        THEN Fails("callback") /\ UNCHANGED <<messages, tool_idx>>
                        ELSE /\ messages' = Append(messages, ToolMessage(res, req.id))
                             /\ exc' = exc
                             /\ IF tool_idx < Len(last_msg[1].tool_calls)
                                THEN pc' = "ra_tool_call" /\ tool_idx' = tool_idx + 1
                                ELSE pc' = "ra_iterate" /\ tool_idx' = tool_idx
    /\ UNCHANGED <<tracker, called, made, snap, file, shown, ownTimes, other, metrics_tracker, now, nops, cb, stage, session, loop,
                   iteration_count, tool_calls_count, tools, input_tokens,
                   last_msg, outputs, result, emitted, loopStart, loopEnd, ref,
                   tracking, runs>>

\* lines 297-314, then the exit of lines 190-191 and the assignment of the
\* returned value in run_system (lines 351, 371, 391)
RunAgent_Return ==
    /\ pc = "ra_return"
    /\ \E o \in log_status(cb) :
          IF o = "raised"
          THEN /\ Fails("callback")
               /\ UNCHANGED <<session, loop, outputs, loopEnd, stage>>
          ELSE /\ session' = ExitSession(session, stage)
               /\ loop' = [loop EXCEPT ![stage] = "done"]
               /\ outputs' = [outputs EXCEPT ![stage] =
                     Some(FinalResponse(last_msg[1], iteration_count,
                                        tool_calls_count, AgentOf(stage)))]
               /\ loopEnd' = [loopEnd EXCEPT ![stage] = Some(metrics_tracker.metrics["total"])]
               /\ exc' = exc
               /\ IF stage < 3
                  THEN pc' = "rs_phase" /\ stage' = stage + 1
                  ELSE pc' = "rs_complete" /\ stage' = stage
    /\ UNCHANGED <<tracker, called, made, snap, file, shown, ownTimes, other, metrics_tracker, now, nops, cb, iteration_count,
                   tool_calls_count, tools, messages, input_tokens, last_msg,
                   tool_idx, result, trace, emitted, loopStart, ref,
                   tracking, runs>>

\* the handler outside the "async with" blocks, the session left as it is
RunAgent_Except_SessionLeft ==
    /\ pc = "ra_except"
    /\ \E o \in log_status(cb) :
          exc' = IF o = "raised" THEN Some("callback") ELSE exc
    /\ loop' = [loop EXCEPT ![stage] = "failed"]
    /\ pc' = "rs_except"
    /\ UNCHANGED <<tracker, called, made, snap, file, shown, ownTimes, other, metrics_tracker, now, nops, cb, stage, session,
                   iteration_count, tool_calls_count, tools, messages,
                   input_tokens, last_msg, tool_idx, outputs, result, trace,
                   emitted, loopStart, loopEnd, ref,
                   tracking, runs>>

\* lines 316-319, then the exit of lines 190-191
RunAgent_Except ==
    /\ pc = "ra_except"
    /\ \E o \in log_status(cb) :
          exc' = IF o = "raised" THEN Some("callback") ELSE exc
    /\ session' = ExitSession(session, stage)
    /\ loop' = [loop EXCEPT ![stage] = "failed"]
    /\ pc' = "rs_except"
    /\ UNCHANGED <<tracker, called, made, snap, file, shown, ownTimes, other, metrics_tracker, now, nops, cb, stage,
                   iteration_count, tool_calls_count, tools, messages,
                   input_tokens, last_msg, tool_idx, outputs, result, trace,
                   emitted, loopStart, loopEnd, ref,
                   tracking, runs>>

(***************************************************************************)
(* run_system (lines 324-422)                                              *)
(***************************************************************************)
\* lines 411-416
PipelineResult(outs, summary) ==
    [plan |-> outs[1][1], code |-> outs[2][1], tests |-> outs[3][1],
     metrics |-> summary]

\* the summary taken before the tracker is ended
CompletionSummary_Early(self, t) == Runner_get_summary(self)

\* lines 402-415: the tracker is ended first, the summary is taken last
CompletionSummary(self, t) == Runner_get_summary(Runner_end_tracking(self, t))

\* line 328, with any status_callback argument
RunSystem_Call ==
    /\ pc = "idle"
    /\ \E c \in {"none", "given"} : cb' = c
    /\ metrics_tracker' = Runner_start_tracking(metrics_tracker, now)
    /\ tracking' = [tracking EXCEPT !.starts = @ + 1]
    /\ ownTimes' = [ownTimes EXCEPT !.start_time = Some(now)]
    /\ runs' = runs + 1
    /\ pc' = "rs_intro"
    /\ UNCHANGED <<tracker, called, made, snap, file, shown, other, now, nops, stage, session, loop,
                   iteration_count, tool_calls_count, tools, messages,
                   input_tokens, last_msg, tool_idx, outputs, result, exc,
                   trace, emitted, loopStart, loopEnd, ref>>

\* lines 330-339: before the try of line 341
RunSystem_Intro ==
    /\ pc = "rs_intro"
    /\ \E o \in log_status(cb) :
          IF o = "raised"
          THEN pc' = "raised" /\ exc' = Some("callback") /\ stage' = stage
          ELSE pc' = "rs_phase" /\ exc' = exc /\ stage' = 1
    /\ UNCHANGED <<tracker, called, made, snap, file, shown, ownTimes, other, metrics_tracker, now, nops, cb, session, loop,
                   iteration_count, tool_calls_count, tools, messages,
                   input_tokens, last_msg, tool_idx, outputs, result, trace,
                   emitted, loopStart, loopEnd, ref,
                   tracking, runs>>

\* lines 343-349, 358-369, 378-389: the messages between two stages, up to
\* the call of run_agent
RunSystem_Phase ==
    /\ pc = "rs_phase"
    /\ \E o \in log_status(cb) :
          IF o = "raised"
          THEN pc' = "rs_except" /\ exc' = Some("callback")
          ELSE pc' = "ra_enter" /\ exc' = exc
    /\ UNCHANGED <<tracker, called, made, snap, file, shown, ownTimes, other, metrics_tracker, now, nops, cb, stage, session, loop,
                   iteration_count, tool_calls_count, tools, messages,
                   input_tokens, last_msg, tool_idx, outputs, result, trace,
                   emitted, loopStart, loopEnd, ref,
                   tracking, runs>>

\* a completion that is never resumed after its last await
RunSystem_Complete_NeverReturns ==
    /\ pc = "rs_complete"
    /\ UNCHANGED vars

\* lines 398-416
RunSystem_Complete ==
    /\ pc = "rs_complete"
    /\ \/ \* the callback fails on line 398
          /\ "raised" \in log_status(cb)
          /\ pc' = "rs_except"
          /\ exc' = Some("callback")
          /\ UNCHANGED <<metrics_tracker, result, tracking, ownTimes>>
       \/ \* the callback fails on lines 404-406
          /\ "raised" \in log_status(cb)
          /\ metrics_tracker' = Runner_end_tracking(metrics_tracker, now)
          /\ tracking' = [tracking EXCEPT !.ends = @ + 1]
          /\ ownTimes' = [ownTimes EXCEPT !.end_time = Some(now)]
          /\ pc' = "rs_except"
          /\ exc' = Some("callback")
          /\ UNCHANGED result
       \/ /\ metrics_tracker' = Runner_end_tracking(metrics_tracker, now)
          /\ tracking' = [tracking EXCEPT !.ends = @ + 1]
          /\ ownTimes' = [ownTimes EXCEPT !.end_time = Some(now)]
          /\ result' = Some(PipelineResult(outputs, CompletionSummary(metrics_tracker, now)))
          /\ pc' = "returned"
          /\ exc' = exc
    /\ UNCHANGED <<tracker, called, made, snap, file, shown, other, now, nops, cb, stage, session,
                   loop, iteration_count, tool_calls_count, tools, messages,
                   input_tokens, last_msg, tool_idx, outputs, trace, emitted,
                   loopStart, loopEnd, ref, runs>>

\* lines 418-422
RunSystem_Except ==
    /\ pc = "rs_except"
    /\ metrics_tracker' = Runner_end_tracking(metrics_tracker, now)
    /\ \E o \in log_status(cb) :
          exc' = IF o = "raised" THEN Some("callback") ELSE exc
    /\ tracking' = [tracking EXCEPT !.ends = @ + 1]
    /\ ownTimes' = [ownTimes EXCEPT !.end_time = Some(now)]
    /\ pc' = "raised"
    /\ UNCHANGED <<tracker, called, made, snap, file, shown, other, now, nops, cb, stage, session,
                   loop, iteration_count, tool_calls_count, tools, messages,
                   input_tokens, last_msg, tool_idx, outputs, result, trace,
                   emitted, loopStart, loopEnd, ref, runs>>

RunStep ==
    \/ RunSystem_Call
    \/ RunSystem_Intro
    \/ RunSystem_Phase
    \/ RunAgent_Enter
    \/ RunAgent_Open
    \/ RunAgent_Initialize
    \/ RunAgent_LoadTools
    \/ RunAgent_Iterate
    \/ RunAgent_Model
    \/ RunAgent_ToolCall
    \/ RunAgent_Invoke
    \/ RunAgent_Return
    \/ RunAgent_Except
    \/ RunSystem_Complete
    \/ RunSystem_Except

Next == RunStep

\* one run_system invocation in a freshly started process
Spec == Init /\ [][Next]_vars

Finished == pc \in {"returned", "raised"}

\* asyncio.run (ui/app.py line 44) drives the one coroutine of a run until it
\* is complete: whenever the await it is suspended at has returned or raised,
\* the event loop resumes it.  Every await of this model returns or raises,
\* and the model emits at most MaxRequests tool-call requests, so in each
\* stage it comes to a turn without one.
Resume == pc # "idle" /\ Next

SpecLive == Init /\ [][Next]_vars /\ WF_vars(Resume)

(***************************************************************************)
(* ui/app.py: interface_fn calls run_system without a status callback and  *)
(* turns what comes back into the four texts of the form, in the order     *)
(* plan, code, tests, metrics.                                             *)
(***************************************************************************)
\* json.dumps(text, indent=2)
json_dumps(text) == [json |-> "string", v |-> text]

\* lines 53-55, 58-60, 63-65: the raw answer as JSON text, the metadata
\* below it when the result has any
FormatStage(data) ==
    [text |-> json_dumps(data.raw),
     metadata |-> IF "metadata" \in DOMAIN data THEN Some(data.metadata) ELSE None]

\* lines 6-37: the figures the text holds; metrics is what
\* metrics_data['metrics'] reads
format_metrics(metrics_data, metrics) ==
    [duration |-> metrics_data.execution_time_seconds,
     total |-> [k \in {"api_calls", "total_tokens", "input_tokens", "output_tokens"} |->
                  metrics["total"][k]],
     agents |-> [a \in {"planner", "developer", "tester"} |->
                   [k \in {"api_calls", "total_tokens", "input_tokens", "output_tokens"} |->
                       IF a \in DOMAIN metrics THEN metrics[a][k] ELSE 0]]]

\* line 19: metrics['total'] of a dict without that key is a KeyError
format_metrics_raises(metrics) == "total" \notin DOMAIN metrics

\* lines 72-74
ErrorOutputs(e) ==
    LET error_msg == [error |-> e]
    IN <<error_msg, error_msg, error_msg, error_msg>>

\* the texts handed back with the code in front of the plan
SuccessOutputs_CodeFirst(res, metrics) ==
    <<FormatStage(res.code), FormatStage(res.plan), FormatStage(res.tests),
      format_metrics(res.metrics, metrics)>>

\* lines 47-70
SuccessOutputs(res, metrics) ==
    <<FormatStage(res.plan), FormatStage(res.code), FormatStage(res.tests),
      format_metrics(res.metrics, metrics)>>

\* lines 42-74, from the point where asyncio.run has come back
InterfaceFn_Return ==
    /\ Finished
    /\ cb = "none"
    /\ shown = None
    /\ shown' =
          IF pc = "raised"
          THEN Some(ErrorOutputs(exc[1]))
          ELSE LET metrics == SummaryMetrics("metrics_tracker", result[1].metrics,
                                            metrics_tracker)
               IN IF format_metrics_raises(metrics)
                  THEN Some(ErrorOutputs("total"))
                  ELSE Some(SuccessOutputs(result[1], metrics))
    /\ UNCHANGED <<tracker, metrics_tracker, now, nops, pc, cb, stage, session,
                   loop, iteration_count, tool_calls_count, tools, messages,
                   input_tokens, last_msg, tool_idx, outputs, result, exc,
                   trace, emitted, loopStart, loopEnd, ref, called, made, snap,
                   tracking, runs, file, ownTimes, other>>

NextInterface ==
    \/ RunStep
    \/ InterfaceFn_Return

\* one submitted form
SpecInterface == Init /\ [][NextInterface]_vars

(***************************************************************************)
(* A second process.  After a run_system(..., status_callback=None) has    *)
(* ended, the program is started again: the modules are loaded afresh      *)
(* (line 134 builds a new metrics_tracker) and ref keeps what the ended    *)
(* run did, so that the new run meets the same model and tool behaviour.   *)
(***************************************************************************)
RunRecord ==
    [trace |-> trace, pc |-> pc, result |-> result, exc |-> exc,
     metrics |-> metrics_tracker.metrics]

StartAgain ==
    /\ Finished
    /\ ref = None
    /\ cb = "none"
    /\ ref' = Some(RunRecord)
    /\ metrics_tracker' = Runner_init
    /\ pc' = "idle"
    /\ stage' = 0
    /\ session' = [s \in Stages |-> "unopened"]
    /\ loop' = [s \in Stages |-> "notstarted"]
    /\ iteration_count' = 0
    /\ tool_calls_count' = 0
    /\ tools' = {}
    /\ messages' = << >>
    /\ input_tokens' = 0
    /\ last_msg' = None
    /\ tool_idx' = 0
    /\ outputs' = [s \in Stages |-> None]
    /\ result' = None
    /\ exc' = None
    /\ trace' = << >>
    /\ emitted' = 0
    /\ loopStart' = [s \in Stages |-> None]
    /\ loopEnd' = [s \in Stages |-> None]
    /\ now' = 0
    /\ tracking' = NoTracking
    /\ runs' = 0
    /\ ownTimes' = NoTimes
    /\ UNCHANGED <<tracker, called, made, snap, file, shown, other, nops, cb>>

NextCompare ==
    \/ RunStep
    \/ StartAgain

\* a run without callback, then a run with any callback against the same
\* model and tool behaviour
SpecCompare == Init /\ [][NextCompare]_vars

(***************************************************************************)
(* run_system called again in the same process (ui/app.py interface_fn     *)
(* calls it once per submitted form).  The invocation gets fresh locals;   *)
(* the module global metrics_tracker is the one line 134 built at import.  *)
(***************************************************************************)
NextInvocation ==
    /\ Finished
    /\ ref = None
    /\ runs < MaxRuns
    /\ pc' = "idle"
    /\ stage' = 0
    /\ session' = [s \in Stages |-> "unopened"]
    /\ loop' = [s \in Stages |-> "notstarted"]
    /\ iteration_count' = 0
    /\ tool_calls_count' = 0
    /\ tools' = {}
    /\ messages' = << >>
    /\ input_tokens' = 0
    /\ last_msg' = None
    /\ tool_idx' = 0
    /\ outputs' = [s \in Stages |-> None]
    /\ result' = None
    /\ exc' = None
    /\ trace' = << >>
    /\ loopStart' = [s \in Stages |-> None]
    /\ loopEnd' = [s \in Stages |-> None]
    /\ tracking' = NoTracking
    /\ ownTimes' = NoTimes
    /\ UNCHANGED <<tracker, called, made, snap, file, shown, other, metrics_tracker, now, nops, cb,
                   emitted, ref, runs>>

NextSequential ==
    \/ RunStep
    \/ NextInvocation

\* up to MaxRuns invocations of run_system in one process
SpecSequential == Init /\ [][NextSequential]_vars

(***************************************************************************)
(* Two run_system invocations under way at once in one process.  Each is   *)
(* suspended at its awaits and the two take turns; both record into the    *)
(* module global metrics_tracker (line 134).  The second invocation is     *)
(* called without callback while the first is under way, and the model it  *)
(* meets raises on the planner's first call; of its steps only what        *)
(* reaches metrics_tracker is kept.                                        *)
(***************************************************************************)
\* line 328
Other_Call ==
    /\ other.pc = "idle"
    /\ pc # "idle"
    /\ metrics_tracker' = Runner_start_tracking(metrics_tracker, now)
    /\ other' = [pc |-> "ra_iterate", stage |-> 1]
    /\ UNCHANGED <<tracker, called, made, snap, file, shown, ownTimes, now, nops, runVars>>

\* lines 209-215
Other_Iterate ==
    /\ other.pc = "ra_iterate"
    /\ metrics_tracker' = Runner_record_iteration(metrics_tracker, AgentOf(other.stage))
    /\ other' = [other EXCEPT !.pc = "ra_model"]
    /\ UNCHANGED <<tracker, called, made, snap, file, shown, ownTimes, now, nops, runVars>>

\* lines 217 and 313-316: the model call raises
Other_Model ==
    /\ other.pc = "ra_model"
    /\ other' = [other EXCEPT !.pc = "rs_except"]
    /\ UNCHANGED <<tracker, metrics_tracker, called, made, snap, file, ownTimes,
                   now, nops, runVars>>

\* lines 418-422
Other_Except ==
    /\ other.pc = "rs_except"
    /\ metrics_tracker' = Runner_end_tracking(metrics_tracker, now)
    /\ other' = [other EXCEPT !.pc = "raised"]
    /\ UNCHANGED <<tracker, called, made, snap, file, shown, ownTimes, now, nops, runVars>>

NextConcurrent ==
    \/ RunStep
    \/ Other_Call
    \/ Other_Iterate
    \/ Other_Model
    \/ Other_Except

SpecConcurrent == Init /\ [][NextConcurrent]_vars

(***************************************************************************)
(* core/system_runner.py: the first runner, started from its own           *)
(* "__main__" block.  run_system builds the three agents one after the     *)
(* other and then runs the workflow whose nodes call the agents.  It has   *)
(* no metrics tracker and no try/except: whatever is raised leaves it.     *)
(*                                                                         *)
(* build_agent makes a ClientSession without entering it; what the         *)
(* awaits on such a session do is the library's affair, so each of them    *)
(* returns, raises, or never returns.  The same holds for a tool           *)
(* invocation on the session of a transport that has been closed, except   *)
(* that no value can come back from a process that is gone.                *)
(***************************************************************************)
\* what the steps of the first runner leave alone
oldFrame ==
    <<tracker, metrics_tracker, now, nops, called, made, snap, file, ownTimes,
      other, loop, iteration_count, tool_calls_count, messages, input_tokens,
      loopStart, loopEnd, ref, tracking, shown>>

\* an await on the session made by line 31
SessionAwait == {"ok", "raise", "hang"}

\* tool_fn.ainvoke(args) through the session of stage s
OldToolAnswers(sess, s, name) ==
    IF sess[s] = "open" THEN ToolAnswers(name) \cup {"hang"} ELSE {"raise", "hang"}

\* line 80, with any status_callback argument
Old_Call ==
    /\ pc = "idle"
    /\ \E c \in {"none", "given"} : cb' = c
    /\ runs' = runs + 1
    /\ stage' = 1
    /\ pc' = "old_build"
    /\ UNCHANGED <<oldFrame, session, tools, last_msg, tool_idx, outputs,
                   result, exc, trace, emitted>>

\* lines 81, 84, 87 and 26-31: the status message, then the transport of
\* the stage's server is opened
Old_Build ==
    /\ pc = "old_build"
    /\ \E o \in log_status(cb) :
          IF o = "raised"
          THEN /\ pc' = "raised"
               /\ exc' = Some("callback")
               /\ UNCHANGED <<session, trace>>
          ELSE \E r \in {"ok", "raise"} :
                  /\ trace' = Append(trace, Event("open", stage, r, << >>))
                  /\ IF r = "ok"
                     THEN /\ session' = [session EXCEPT ![stage] = "open"]
                          /\ pc' = "old_initialize"
                          /\ exc' = exc
                     ELSE /\ session' = session
                          /\ pc' = "raised"
                          /\ exc' = Some("transport")
    /\ UNCHANGED <<oldFrame, cb, stage, tools, last_msg, tool_idx, outputs,
                   result, emitted, runs>>

\* line 32; an exception leaves the "async with" of line 30
Old_Initialize ==
    /\ pc = "old_initialize"
    /\ \E r \in SessionAwait :
          /\ trace' = Append(trace, Event("initialize", stage, r, << >>))
          /\ CASE r = "ok" -> /\ pc' = "old_load_tools"
                              /\ UNCHANGED <<session, exc>>
               [] r = "raise" -> /\ pc' = "raised"
                                 /\ exc' = Some("handshake")
                                 /\ session' = ExitSession(session, stage)
               [] r = "hang" -> /\ pc' = "hung"
                                /\ UNCHANGED <<session, exc>>
    /\ UNCHANGED <<oldFrame, cb, stage, tools, last_msg, tool_idx, outputs,
                   result, emitted, runs>>

\* lines 33-34 and 82-88: the tools are loaded and build_agent returns from
\* inside the "async with" of line 30, which closes the transport
Old_LoadTools ==
    /\ pc = "old_load_tools"
    /\ \E r \in SessionAwait :
          /\ trace' = Append(trace, Event("load_tools", stage, r, << >>))
          /\ CASE r = "ok" -> /\ tools' = ToolsOf(stage)
                              /\ session' = ExitSession(session, stage)
                              /\ exc' = exc
                              /\ IF stage < 3
                                 THEN pc' = "old_build" /\ stage' = stage + 1
                                 ELSE pc' = "old_workflow" /\ stage' = stage
               [] r = "raise" -> /\ pc' = "raised"
                                 /\ exc' = Some("discovery")
                                 /\ session' = ExitSession(session, stage)
                                 /\ UNCHANGED <<tools, stage>>
               [] r = "hang" -> /\ pc' = "hung"
                                /\ UNCHANGED <<tools, session, exc, stage>>
    /\ UNCHANGED <<oldFrame, cb, last_msg, tool_idx, outputs, result, emitted,
                   runs>>

\* lines 90-98: the status message, then the workflow enters its first node
Old_Workflow ==
    /\ pc = "old_workflow"
    /\ \E o \in log_status(cb) :
          IF o = "raised"
          THEN pc' = "raised" /\ exc' = Some("callback") /\ stage' = stage
          ELSE pc' = "old_model" /\ exc' = exc /\ stage' = 1
    /\ UNCHANGED <<oldFrame, cb, session, tools, last_msg, tool_idx, outputs,
                   result, trace, emitted, runs>>

\* lines 49-65: the agent of the node calls the model; a turn without
\* tool-call requests is the node's result, and the graph (lines 71-74)
\* goes on to the next node
Old_Model ==
    /\ pc = "old_model"
    /\ \/ /\ trace' = Append(trace, Event("model", stage, "raise", << >>))
          /\ pc' = "raised"
          /\ exc' = Some("model")
          /\ UNCHANGED <<last_msg, tool_idx, emitted, outputs, stage>>
       \/ \E names \in TurnRequests :
             LET msg == AIMessage(WithIds(names))
             IN /\ trace' = Append(trace, Event("model", stage, "turn", msg.tool_calls))
                /\ emitted' = emitted + Len(names)
                /\ last_msg' = Some(msg)
                /\ exc' = exc
                /\ IF msg.tool_calls # << >>
                   THEN /\ pc' = "old_invoke"
                        /\ tool_idx' = 1
                        /\ UNCHANGED <<outputs, stage>>
                   ELSE /\ outputs' = [outputs EXCEPT ![stage] = Some(msg.content)]
                        /\ tool_idx' = tool_idx
                        /\ IF stage < 3
                           THEN pc' = "old_model" /\ stage' = stage + 1
                           ELSE pc' = "old_complete" /\ stage' = stage
    /\ UNCHANGED <<oldFrame, cb, session, tools, result, runs>>

\* lines 51-52, 57-58, 63-64: the agent made of the node's tools invokes a
\* requested tool through the session build_agent returned; a request for
\* a name the node has no tool for is answered without an invocation, and
\* what an invocation raises either leaves the node or is given to the
\* model as the tool's answer
Old_Invoke ==
    /\ pc = "old_invoke"
    /\ LET req == last_msg[1].tool_calls[tool_idx]
           onward == IF tool_idx < Len(last_msg[1].tool_calls)
                     THEN "old_invoke" ELSE "old_model"
           step == IF tool_idx < Len(last_msg[1].tool_calls)
                   THEN tool_idx + 1 ELSE tool_idx
       IN IF req.name \notin ToolsOf(stage)
          THEN /\ pc' = onward
               /\ tool_idx' = step
               /\ UNCHANGED <<trace, exc>>
          ELSE \E r \in OldToolAnswers(session, stage, req.name) :
                  /\ trace' = Append(trace, Event("tool", stage, r, <<req>>))
                  /\ CASE r = "hang" -> /\ pc' = "hung"
                                        /\ UNCHANGED <<tool_idx, exc>>
                       [] r = "raise" ->
                            \/ /\ pc' = "raised"
                               /\ exc' = Some("tool")
                               /\ tool_idx' = tool_idx
                            \/ /\ pc' = onward
                               /\ tool_idx' = step
                               /\ exc' = exc
                       [] OTHER -> /\ pc' = onward
                                   /\ tool_idx' = step
                                   /\ exc' = exc
    /\ UNCHANGED <<oldFrame, cb, stage, session, tools, last_msg, outputs,
                   result, emitted, runs>>

\* lines 99-100
Old_Complete ==
    /\ pc = "old_complete"
    /\ \E o \in log_status(cb) :
          IF o = "raised"
          THEN pc' = "raised" /\ exc' = Some("callback") /\ result' = result
          ELSE /\ pc' = "returned"
               /\ exc' = exc
               /\ result' = Some([plan |-> outputs[1][1], code |-> outputs[2][1],
                                   tests |-> outputs[3][1]])
    /\ UNCHANGED <<oldFrame, cb, stage, session, tools, last_msg, tool_idx,
                   outputs, trace, emitted, runs>>

NextOld ==
    \/ Old_Call
    \/ Old_Build
    \/ Old_Initialize
    \/ Old_LoadTools
    \/ Old_Workflow
    \/ Old_Model
    \/ Old_Invoke
    \/ Old_Complete

\* one run_system invocation of the first runner
SpecOld == Init /\ [][NextOld]_vars

(***************************************************************************)
(* Sums over the buckets of a metrics dict.                                *)
(***************************************************************************)
RECURSIVE SumOver(_, _, _)
SumOver(d, names, field) ==
    IF names = {}
    THEN 0
    ELSE LET a == CHOOSE x \in names : TRUE
         IN d[a][field] + SumOver(d, names \ {a}, field)

TotalIsSum(d) ==
    \A field \in DOMAIN d["total"] :
        d["total"][field] = SumOver(d, (DOMAIN d) \ {"total"}, field)

\* C1: after every mutation of a MetricsTracker, for any agent-name
\* argument, every field of the 'total' bucket equals the sum of that field
\* over the other buckets.
C1_TotalEqualsSum ==
    /\ TotalIsSum(tracker.metrics)
    /\ TotalIsSum(metrics_tracker.metrics)

(***************************************************************************)
(* What a run did, read from its history.                                  *)
(***************************************************************************)
\* answers of the model to stage s, failed calls included
ModelCalls(tr, s) ==
    Cardinality({i \in DOMAIN tr : tr[i].kind = "model" /\ tr[i].stage = s})

\* tool invocations of stage s
Invocations(tr, s) ==
    Cardinality({i \in DOMAIN tr : tr[i].kind = "tool" /\ tr[i].stage = s})

\* positions of the turns of stage s that carried tool-call requests
ToolRounds(tr, s) ==
    {i \in DOMAIN tr : /\ tr[i].kind = "model"
                       /\ tr[i].stage = s
                       /\ tr[i].res = "turn"
                       /\ tr[i].reqs # << >>}

RECURSIVE RequestsIn(_, _)
RequestsIn(tr, rounds) ==
    IF rounds = {}
    THEN 0
    ELSE LET i == CHOOSE x \in rounds : TRUE
         IN Len(tr[i].reqs) + RequestsIn(tr, rounds \ {i})

\* the model asked stage s for a tool its server does not have
UnknownRequested(tr, s) ==
    \E i \in ToolRounds(tr, s) :
        \E j \in DOMAIN tr[i].reqs : tr[i].reqs[j].name \notin ToolsOf(s)

Opens(tr, s) ==
    Cardinality({i \in DOMAIN tr : tr[i].kind = "open" /\ tr[i].stage = s})

\* C2: a loop that reaches Done after N rounds whose turn carried tool-call
\* requests returns iteration count N + 1.
C2_IterationsAreRoundsPlusOne ==
    \A s \in Stages :
        outputs[s] # None =>
            outputs[s][1].metadata.iterations = Cardinality(ToolRounds(trace, s)) + 1

C2_Witness ==
    \E s \in Stages :
        /\ outputs[s] # None
        /\ Cardinality(ToolRounds(trace, s)) = 2
        /\ outputs[s][1].metadata.iterations = 3

\* C3: once the first turn of a loop has come back with no tool-call request,
\* the next step of the loop is Done: one model call was made, no tool was
\* invoked, and the result is iterations 1, tool calls 0, agent the stage's
\* name.
C3_ZeroToolTurnGoesToDone ==
    [][(pc = "ra_return" /\ iteration_count = 1) =>
          /\ loop'[stage] = "done"
          /\ outputs'[stage] # None
          /\ outputs'[stage][1].metadata =
                [iterations |-> 1, tool_calls |-> 0, agent |-> AgentOf(stage)]
          /\ ModelCalls(trace', stage) = 1
          /\ Invocations(trace', stage) = 0]_vars

\* C4: after the model asked for a tool that is not among the discovered
\* ones, the loop does not reach Done, no later stage starts, no stage
\* result from there on and no pipeline result exist, and run_system ends
\* by raising.
C4_UnknownToolFailsFast ==
    \A s \in Stages :
        UnknownRequested(trace, s) =>
            /\ loop[s] # "done"
            /\ outputs[s] = None
            /\ \A t \in Stages :
                  t > s => /\ loop[t] = "notstarted"
                           /\ session[t] = "unopened"
                           /\ outputs[t] = None
            /\ result = None
            /\ pc # "returned"
            /\ pc = "raised" => loop[s] = "failed"

C4_Witness ==
    /\ pc = "raised"
    /\ UnknownRequested(trace, 1)
    /\ exc = Some("unknown_tool")
    /\ loop = <<"failed", "notstarted", "notstarted">>
    /\ outputs[2] = None
    /\ outputs[3] = None

\* C5: a loop that reaches Done after N tool rounds carrying T requests
\* returns tool call count T, and over the loop total.api_calls grew by
\* N + 1 and total.tool_calls by T.
C5_CountsOverLoop ==
    \A s \in Stages :
        outputs[s] # None =>
            LET rounds == ToolRounds(trace, s)
                T == RequestsIn(trace, rounds)
            IN /\ outputs[s][1].metadata.tool_calls = T
               /\ loopEnd[s][1].api_calls - loopStart[s][1].api_calls
                     = Cardinality(rounds) + 1
               /\ loopEnd[s][1].tool_calls - loopStart[s][1].tool_calls = T

\* the developer asks for one tool, then answers
C5_Witness ==
    /\ outputs[2] # None
    /\ Cardinality(ToolRounds(trace, 2)) = 1
    /\ outputs[2][1].metadata = [iterations |-> 2, tool_calls |-> 1, agent |-> "developer"]
    /\ loopEnd[2][1].api_calls - loopStart[2][1].api_calls = 2
    /\ loopEnd[2][1].tool_calls - loopStart[2][1].tool_calls = 1

\* C6: the stages run in the order planner, developer, tester: at most one
\* session is open, and a stage's session is opened (and its loop started)
\* only after the stage before it has closed its session and reached Done.
C6_StagesInOrder ==
    /\ Cardinality({s \in Stages : session[s] = "open"}) <= 1
    /\ \A s \in Stages :
          (s > 1 /\ (session[s] # "unopened" \/ loop[s] # "notstarted")) =>
              /\ session[s - 1] = "closed"
              /\ loop[s - 1] = "done"

C6_Witness ==
    /\ session = <<"closed", "closed", "open">>
    /\ loop = <<"done", "done", "running">>

\* C7: when a stage's loop has failed, run_system is in its handler or has
\* raised; it has raised only with end_time set; it returns no result, the
\* failed stage is not opened again and no later stage runs.
C7_StageFailurePropagates ==
    \A s \in Stages :
        loop[s] = "failed" =>
            /\ pc \in {"rs_except", "raised"}
            /\ pc = "raised" => (metrics_tracker.end_time # None /\ exc # None)
            /\ result = None
            /\ Opens(trace, s) <= 1
            /\ \A t \in Stages :
                  t > s => (loop[t] = "notstarted" /\ session[t] = "unopened")

\* the developer fails after the planner completed: nothing is returned
C7_Witness ==
    /\ pc = "raised"
    /\ loop = <<"done", "failed", "notstarted">>
    /\ outputs[1] # None
    /\ result = None
    /\ metrics_tracker.end_time # None

\* C8: a returned PipelineResult exists only with all three loops Done; plan,
\* code and tests are the planner's, developer's and tester's results, and
\* its metrics summary was computed with end_time set.
C8_ResultAfterAllStages ==
    result # None =>
        /\ \A s \in Stages : loop[s] = "done"
        /\ result[1].plan = outputs[1][1]
        /\ result[1].code = outputs[2][1]
        /\ result[1].tests = outputs[3][1]
        /\ result[1].plan.metadata.agent = "planner"
        /\ result[1].code.metadata.agent = "developer"
        /\ result[1].tests.metadata.agent = "tester"
        /\ metrics_tracker.end_time # None
        /\ result[1].metrics.execution_time_seconds
              = metrics_tracker.end_time[1] - metrics_tracker.start_time[1]

C8_Witness ==
    /\ pc = "returned"
    /\ result # None
    /\ result[1].metrics.execution_time_seconds > 0

\* C9: whenever run_agent has been left, by return or by raising, its
\* transport session is not open.
C9_SessionClosedOnExit ==
    \A s \in Stages : loop[s] \in {"done", "failed"} => session[s] # "open"

\* a tool failure in the middle of the loop
C9_Witness ==
    \E s \in Stages :
        /\ loop[s] = "failed"
        /\ session[s] = "closed"
        /\ exc = Some("tool")
        /\ Invocations(trace, s) = 2

\* C10: against the same model and tool behaviour, run_system with any
\* status_callback makes the same model calls and tool invocations and ends
\* with the same outcome and metrics as run_system without callback.
C10_CallbackNeverAffectsControlFlow ==
    (ref # None /\ Finished) =>
        /\ trace = ref[1].trace
        /\ pc = ref[1].pc
        /\ result = ref[1].result
        /\ metrics_tracker.metrics = ref[1].metrics

(***************************************************************************)
(* Direct calls on the trackers, read from the history of calls.           *)
(***************************************************************************)
RecordOps ==
    {"record_api_call", "record_tool_call", "record_iteration", "record_error"}

\* the counter a record_* method increments
FieldOf(op) ==
    CASE op = "record_api_call" -> "api_calls"
      [] op = "record_tool_call" -> "tool_calls"
      [] op = "record_iteration" -> "iterations"
      [] op = "record_error" -> "errors"

\* C11: every record_* call (record_api_call, record_tool_call,
\* record_iteration, record_error) made with an agent name that has no bucket
\* creates a zeroed bucket for that name, applies the increment to it and to
\* the total, and does not fail.
C11_UnknownAgentGetsBucket ==
    [][LET pre == IF called'.on = "tracker"
                  THEN tracker.metrics ELSE metrics_tracker.metrics
           post == IF called'.on = "tracker"
                   THEN tracker'.metrics ELSE metrics_tracker'.metrics
           a == called'.agent
           f == FieldOf(called'.op)
       IN (nops' = nops + 1 /\ called'.op \in RecordOps /\ a \notin DOMAIN pre) =>
             /\ ~called'.raised
             /\ a \in DOMAIN post
             /\ post[a][f] = 1
             /\ post["total"][f] = pre["total"][f] + 1]_vars

\* C12: record_api_call(agent, i, o) on a known agent increases api_calls by
\* 1, input_tokens by i, output_tokens by o and total_tokens by i + o, in that
\* agent's bucket and in the total bucket.
C12_ApiCallAddsTokens ==
    [][LET pre == IF called'.on = "tracker"
                  THEN tracker.metrics ELSE metrics_tracker.metrics
           post == IF called'.on = "tracker"
                   THEN tracker'.metrics ELSE metrics_tracker'.metrics
           a == called'.agent
           i == called'.tok[1]
           o == called'.tok[2]
       IN (nops' = nops + 1 /\ called'.op = "record_api_call" /\ a \in KnownAgents) =>
             \A b \in {a, "total"} :
                /\ post[b].api_calls = pre[b].api_calls + 1
                /\ post[b].input_tokens = pre[b].input_tokens + i
                /\ post[b].output_tokens = pre[b].output_tokens + o
                /\ post[b].total_tokens = pre[b].total_tokens + (i + o)]_vars

\* two calls for the developer, one of them carrying tokens
C12_Witness ==
    /\ called = Call("tracker", "record_api_call", "developer", <<2, 1>>, FALSE)
    /\ tracker.metrics["developer"].api_calls = 2
    /\ tracker.metrics["developer"].total_tokens = 3
    /\ tracker.metrics["total"].api_calls = 2
    /\ tracker.metrics["total"].total_tokens = 3

\* C13: on a tracker that was fresh, every known agent's tool_calls,
\* iterations and errors equal the numbers of record_tool_call,
\* record_iteration and record_error calls made for that agent, and no other
\* field of its bucket was changed by those calls.
C13_CountersCountCalls ==
    \A a \in KnownAgents :
        tracker.metrics[a] =
            [api_calls |-> made[a].record_api_call,
             input_tokens |-> made[a].in_tok,
             output_tokens |-> made[a].out_tok,
             total_tokens |-> made[a].in_tok + made[a].out_tok,
             tool_calls |-> made[a].record_tool_call,
             iterations |-> made[a].record_iteration,
             errors |-> made[a].record_error]

C13_Witness ==
    /\ made["planner"].record_tool_call = 1
    /\ made["planner"].record_iteration = 1
    /\ made["tester"].record_error = 1
    /\ tracker.metrics["planner"].tool_calls = 1
    /\ tracker.metrics["planner"].iterations = 1
    /\ tracker.metrics["planner"].errors = 0
    /\ tracker.metrics["tester"].errors = 1

\* C14: whatever start_tracking, end_tracking and reset calls came before,
\* asking a tracker for its summary does not fail, and the duration in it is
\* 0 when end_time is unset and end_time - start_time when tracking has ended.
C14_DurationNeverFails ==
    called.op = "get_summary" =>
        /\ ~called.raised
        /\ LET self == IF called.on = "tracker" THEN tracker ELSE metrics_tracker
               duration == snap.summary[1].execution_time_seconds
           IN IF self.end_time = None
              THEN duration = 0
              ELSE self.start_time # None =>
                      duration = self.end_time[1] - self.start_time[1]

\* C15: the per-agent counters read from a summary that was returned are the
\* ones it held when it was returned, whatever record_* or reset call was
\* made since.
C15_SummaryIsSnapshot ==
    snap.summary # None =>
        SummaryMetrics(snap.of, snap.summary[1], metrics_tracker) = snap.seen[1]

(***************************************************************************)
(* run_system invocations.                                                 *)
(***************************************************************************)
\* C16: when a run_system invocation has ended, by return or by raising, it
\* has set start_time exactly once and end_time exactly once.
C16_TrackingSetOnce ==
    Finished => tracking = [starts |-> 1, ends |-> 1]

\* C17: the metrics in a returned PipelineResult count the run that returned
\* it: for each stage, metrics[agent].iterations is the stage's iteration
\* count and metrics[agent].tool_calls its tool call count.
C17_MetricsCountOnlyThisRun ==
    result # None =>
        LET m == SummaryMetrics("metrics_tracker", result[1].metrics, metrics_tracker)
        IN \A s \in Stages :
              /\ m[AgentOf(s)].iterations = outputs[s][1].metadata.iterations
              /\ m[AgentOf(s)].tool_calls = outputs[s][1].metadata.tool_calls

IdsOf(reqs) ==
    IF reqs = << >> THEN << >> ELSE [k \in 1..Len(reqs) |-> reqs[k].id]

\* ids of the requests the model emitted to stage s, in emission order
RECURSIVE EmittedIds(_, _)
EmittedIds(tr, s) ==
    IF tr = << >>
    THEN << >>
    ELSE (IF Head(tr).kind = "model" /\ Head(tr).stage = s
          THEN IdsOf(Head(tr).reqs) ELSE << >>) \o EmittedIds(Tail(tr), s)

\* ids of the requests stage s invoked, in the order of the invocations
RECURSIVE InvokedIds(_, _)
InvokedIds(tr, s) ==
    IF tr = << >>
    THEN << >>
    ELSE (IF Head(tr).kind = "tool" /\ Head(tr).stage = s
          THEN IdsOf(Head(tr).reqs) ELSE << >>) \o InvokedIds(Tail(tr), s)

IsToolMessage(m) == m.type = "tool"

\* tool_call_id of the Tool messages of a message list, in list order
ToolMessageIds(msgs) ==
    LET t == SelectSeq(msgs, IsToolMessage)
    IN IF t = << >> THEN << >> ELSE [k \in 1..Len(t) |-> t[k].tool_call_id]

IsPrefix(p, q) ==
    /\ Len(p) <= Len(q)
    /\ \A k \in 1..Len(p) : p[k] = q[k]

\* C18: the requests of a stage are invoked one after the other in emission
\* order; the model is called again only when every request of the turn
\* before has been invoked; the Tool messages are in the message list in the
\* order of the invocations.
C18_RequestsInEmissionOrder ==
    \A s \in Stages :
        /\ IsPrefix(InvokedIds(trace, s), EmittedIds(trace, s))
        /\ \A i \in DOMAIN trace :
              (trace[i].kind = "model" /\ trace[i].stage = s) =>
                  InvokedIds(SubSeq(trace, 1, i - 1), s)
                      = EmittedIds(SubSeq(trace, 1, i - 1), s)
        /\ (stage = s /\ loop[s] = "running") =>
              IsPrefix(ToolMessageIds(messages), InvokedIds(trace, s))

\* both requests of one turn invoked, their Tool messages in the list
C18_Witness ==
    \E i \in DOMAIN trace :
        /\ trace[i].kind = "model"
        /\ Len(trace[i].reqs) = 2
        /\ stage = trace[i].stage
        /\ loop[stage] = "running"
        /\ ToolMessageIds(messages) = IdsOf(trace[i].reqs)
        /\ InvokedIds(trace, stage) = IdsOf(trace[i].reqs)

\* C19: after a tool invocation has failed, no model call and no tool
\* invocation follows, control is on its way out of run_system, which
\* returns no result and ends by raising; no request is invoked twice.
C19_NoRetryAfterToolFailure ==
    /\ \A i \in DOMAIN trace :
          (trace[i].kind = "tool" /\ trace[i].res = "raise") =>
              /\ i = Len(trace)
              /\ pc \in {"ra_except", "rs_except", "raised"}
              /\ result = None
              /\ exc # None
    /\ \A i, j \in DOMAIN trace :
          (i # j /\ trace[i].kind = "tool" /\ trace[j].kind = "tool") =>
              trace[i].reqs # trace[j].reqs

\* the first of two requests fails: the second is never invoked
C19_Witness ==
    /\ pc = "raised"
    /\ exc = Some("tool")
    /\ Len(trace) >= 2
    /\ trace[Len(trace)].kind = "tool"
    /\ trace[Len(trace)].res = "raise"
    /\ trace[Len(trace) - 1].kind = "model"
    /\ Len(trace[Len(trace) - 1].reqs) = 2

\* C20: whenever run_system has ended by raising, end_time is set.
C20_FinalizedBeforeRaise ==
    pc = "raised" => metrics_tracker.end_time # None

(***************************************************************************)
(* The agent loop.                                                         *)
(***************************************************************************)
\* C21: the summary save_to_file has written, read back with json.load, holds
\* for every bucket of the tracker (total included) the counters the tracker
\* has, and the duration get_duration() gives.
C21_SavedSummaryReloadsEqual ==
    (called.op = "save_to_file" /\ file # None) =>
        LET loaded == json_load(file[1].text)
        IN /\ DOMAIN loaded.metrics = DOMAIN tracker.metrics
           /\ \A a \in DOMAIN tracker.metrics :
                 \A k \in DOMAIN tracker.metrics[a] :
                    loaded.metrics[a][k] = tracker.metrics[a][k]
           /\ loaded.execution_time_seconds = get_duration(tracker)

\* a file written after an API call and an error were recorded
C21_Witness ==
    /\ called.op = "save_to_file"
    /\ file # None
    /\ json_load(file[1].text).metrics["planner"].total_tokens = 3
    /\ json_load(file[1].text).metrics["total"].errors = 1

\* C22: every Tool message of the message list submitted to the model
\* carries the call id of a tool-call request of an Assistant message that
\* is before it in that list.
C22_ToolMessageFollowsItsRequest ==
    pc = "ra_model" =>
        \A k \in DOMAIN messages :
            messages[k].type = "tool" =>
                \E j \in 1..(k - 1) :
                    /\ messages[j].type = "assistant"
                    /\ \E r \in DOMAIN messages[j].tool_calls :
                          messages[j].tool_calls[r].id = messages[k].tool_call_id

\* the loop of stage s is under way: the model has answered a first turn
LoopEntered(tr, s) ==
    \E i \in DOMAIN tr : tr[i].kind = "model" /\ tr[i].stage = s

\* so far every turn of the model for stage s carried at least one request,
\* every request named a tool of the stage, and every invocation returned
EveryTurnWorks(tr, s) ==
    \A i \in DOMAIN tr :
        tr[i].stage = s =>
            /\ tr[i].kind = "model" =>
                  /\ tr[i].res = "turn"
                  /\ tr[i].reqs # << >>
                  /\ \A j \in DOMAIN tr[i].reqs : tr[i].reqs[j].name \in ToolsOf(s)
            /\ tr[i].kind = "tool" => tr[i].res # "raise"

\* C23: against a model whose every turn carries at least one resolvable,
\* succeeding request, the loop has neither reached Done nor failed, and its
\* iteration counter has followed the number of turns.
C23_NoIterationCap ==
    \A s \in Stages :
        (LoopEntered(trace, s) /\ EveryTurnWorks(trace, s)) =>
            /\ stage = s
            /\ loop[s] = "running"
            /\ iteration_count >= ModelCalls(trace, s)
            /\ iteration_count <= ModelCalls(trace, s) + 1

\* C24: when every model call, tool invocation and status callback returns
\* and the model of each stage comes to a turn without tool-call requests, a
\* run_system that was called eventually returns a PipelineResult or raises.
C24_RunSystemEnds == (pc # "idle") ~> Finished

\* a run with callbacks has returned after the planner worked through a tool
C24_Witness ==
    /\ pc = "returned"
    /\ cb = "given"
    /\ result # None
    /\ ModelCalls(trace, 1) = 2
    /\ Invocations(trace, 1) = 1
    /\ ModelCalls(trace, 3) = 1

\* C25: when the loop has come to the k-th request of a turn and its name is
\* not among the discovered tools, no invocation was made for it or for a
\* request after it, each of the k - 1 requests before it was invoked exactly
\* once, and the tool-call counter and metric count k requests of that turn.
C25_UnknownRequestCountedNotInvoked ==
    (/\ stage \in Stages
     /\ pc \in {"ra_except", "rs_except", "raised"}
     /\ last_msg # None
     /\ tool_idx \in DOMAIN last_msg[1].tool_calls
     /\ ~Resolves(tools, last_msg[1].tool_calls[tool_idx].name)) =>
        LET reqs == last_msg[1].tool_calls
            k == tool_idx
            before == RequestsIn(trace, ToolRounds(trace, stage)) - Len(reqs)
        IN /\ \A j \in k..Len(reqs), i \in DOMAIN trace :
                 trace[i].kind = "tool" => trace[i].reqs # <<reqs[j]>>
           /\ \A j \in 1..(k - 1) :
                 Cardinality({i \in DOMAIN trace :
                    trace[i].kind = "tool" /\ trace[i].reqs = <<reqs[j]>>}) = 1
           /\ tool_calls_count = before + k
           /\ metrics_tracker.metrics[AgentOf(stage)].tool_calls = before + k

\* the second request of a turn is unknown: one invocation, two counted
C25_Witness ==
    /\ pc = "raised"
    /\ exc = Some("unknown_tool")
    /\ tool_idx = 2
    /\ Invocations(trace, stage) = 1
    /\ tool_calls_count = 2
    /\ metrics_tracker.metrics[AgentOf(stage)].tool_calls = 2

\* C26: an invocation that returns an application-level error value does not
\* fail the loop: the value is appended as a Tool message with the request's
\* id, and the loop goes on with the next request or the next iteration, its
\* counters as after any invocation that returned.
C26_ErrorValueIsAToolResult ==
    [][(/\ pc = "ra_invoke"
        /\ Len(trace') = Len(trace) + 1
        /\ trace'[Len(trace')].kind = "tool"
        /\ trace'[Len(trace')].res = "error_value") =>
          /\ messages' = Append(messages,
                ToolMessage("error_value", last_msg[1].tool_calls[tool_idx].id))
          /\ pc' = IF tool_idx < Len(last_msg[1].tool_calls)
                   THEN "ra_tool_call" ELSE "ra_iterate"
          /\ loop' = loop
          /\ exc' = exc
          /\ iteration_count' = iteration_count
          /\ tool_calls_count' = tool_calls_count]_vars

\* C27: the Human message of a running stage is built from the result the
\* stage before it returned (the planner's from the project description), and
\* the rest of its message list are Tool messages of its own requests.
C27_StageConsumesPreviousResult ==
    \A s \in Stages :
        (stage = s /\ loop[s] = "running" /\ messages # << >>) =>
            /\ Len(messages) >= 2
            /\ messages[1].type = "system"
            /\ messages[2].type = "human"
            /\ messages[2].input =
                  Some([from |-> s - 1,
                        output |-> IF s = 1 THEN None ELSE outputs[s - 1]])
            /\ s > 1 => /\ outputs[s - 1] # None
                        /\ outputs[s - 1][1].metadata.agent = AgentOf(s - 1)
            /\ \A k \in 3..Len(messages) :
                  /\ messages[k].type = "tool"
                  /\ \E e \in DOMAIN EmittedIds(trace, s) :
                        EmittedIds(trace, s)[e] = messages[k].tool_call_id

\* the tester at work on the developer's result, one Tool message in
C27_Witness ==
    /\ stage = 3
    /\ loop[3] = "running"
    /\ Len(messages) = 3
    /\ outputs[2] # None
    /\ messages[2].input[1].output = outputs[2]
    /\ outputs[2][1].metadata.tool_calls = 1

\* C28: every model call and every tool invocation is made by the stage that
\* is running, while that stage's transport session is open and no other
\* stage's session is.
C28_CallsWhileOwnSessionOpen ==
    [][(/\ Len(trace') = Len(trace) + 1
        /\ trace'[Len(trace')].kind \in {"model", "tool"}) =>
          LET e == trace'[Len(trace')]
          IN /\ e.stage = stage
             /\ session[e.stage] = "open"
             /\ \A t \in Stages \ {e.stage} : session[t] # "open"]_vars

\* C29: with a second run_system invocation interleaved, the metrics a run
\* returns count that run's own model calls, iterations and tool calls, its
\* execution time runs from its own start_tracking to its own end_tracking,
\* and the tracker's start_time and end_time are the ones that run stored.
C29_InterleavedRunsKeepOwnMetrics ==
    result # None =>
        LET m == SummaryMetrics("metrics_tracker", result[1].metrics, metrics_tracker)
        IN /\ \A s \in Stages :
                 /\ m[AgentOf(s)].api_calls = ModelCalls(trace, s)
                 /\ m[AgentOf(s)].iterations = outputs[s][1].metadata.iterations
                 /\ m[AgentOf(s)].tool_calls = outputs[s][1].metadata.tool_calls
           /\ result[1].metrics.execution_time_seconds =
                 ownTimes.end_time[1] - ownTimes.start_time[1]
           /\ metrics_tracker.start_time = ownTimes.start_time
           /\ metrics_tracker.end_time = ownTimes.end_time

\* C30: once end_time is set, no call other than reset changes a counter of
\* any bucket or a timestamp of the tracker.
C30_ReadOnlyAfterEnd ==
    [][(tracker.end_time # None /\ ~(nops' = nops + 1 /\ called'.op = "reset")) =>
          /\ tracker'.metrics = tracker.metrics
          /\ tracker'.start_time = tracker.start_time
          /\ tracker'.end_time = tracker.end_time]_vars

\* C32: within one agent loop, the input-token estimate taken for a model
\* call is never smaller than the one taken for the call before it.
C32_InputEstimateNeverShrinks ==
    [][(pc = "ra_iterate" /\ pc' = "ra_model" /\ iteration_count >= 1) =>
          input_tokens' >= input_tokens]_vars

\* the estimate of a second model call, after a Tool message was appended
C32_Witness ==
    /\ pc = "ra_model"
    /\ iteration_count = 2
    /\ Len(messages) = 3
    /\ input_tokens = SumTokens(InitialMessages([from |-> 0, output |-> None])) + 2

\* C33: interface_fn hands back four outputs whatever run_system did: when
\* run_system raised, each of the four is the error message of what it
\* raised; when it returned, they are the plan, the code, the tests and the
\* formatted metrics, in that order.
C33_InterfaceAlwaysAnswers ==
    /\ (Finished /\ cb = "none" /\ shown = None) => ENABLED InterfaceFn_Return
    /\ shown # None =>
          /\ Len(shown[1]) = 4
          /\ pc = "raised" =>
                \A i \in 1..4 : shown[1][i] = [error |-> exc[1]]
          /\ pc = "returned" =>
                /\ \A s \in Stages :
                      /\ shown[1][s].text = json_dumps(outputs[s][1].raw)
                      /\ shown[1][s].metadata = Some(outputs[s][1].metadata)
                /\ shown[1][4].duration = result[1].metrics.execution_time_seconds
                /\ \A k \in DOMAIN shown[1][4].total :
                      shown[1][4].total[k] = metrics_tracker.metrics["total"][k]
                /\ \A a \in KnownAgents :
                      \A k \in DOMAIN shown[1][4].agents[a] :
                         shown[1][4].agents[a][k] = metrics_tracker.metrics[a][k]

\* the form after a run that returned, the planner having used a tool
C33_Witness ==
    /\ shown # None
    /\ pc = "returned"
    /\ shown[1][1].metadata = Some([iterations |-> 2, tool_calls |-> 1, agent |-> "planner"])
    /\ shown[1][4].total["api_calls"] = 4

\* C34: when an agent loop has ended, by Done or by a failure, the iterations
\* recorded for its agent equal the api_calls recorded for it, and at every
\* point iterations is api_calls or api_calls + 1.
C34_IterationsMatchApiCalls ==
    \A s \in Stages :
        LET m == metrics_tracker.metrics[AgentOf(s)]
        IN /\ m.iterations \in {m.api_calls, m.api_calls + 1}
           /\ loop[s] \in {"done", "failed"} => m.iterations = m.api_calls

(***************************************************************************)
(* The counters of a tracker under any sequence of direct calls.           *)
(***************************************************************************)
\* bucket b of dict post holds no counter below the one of dict pre
NotLowered(pre, post) ==
    \A b \in DOMAIN pre :
        /\ b \in DOMAIN post
        /\ \A k \in DOMAIN pre[b] : post[b][k] >= pre[b][k]

\* C31: no call other than reset lowers a counter of any bucket: every
\* record_*, start_tracking and end_tracking call (and every other step that
\* is not a reset) leaves each counter as it was or higher.
C31_OnlyResetLowersCounters ==
    [][~(nops' = nops + 1 /\ called'.op = "reset") =>
          /\ \/ tracker'.metrics = tracker.metrics
             \/ NotLowered(tracker.metrics, tracker'.metrics)
          /\ \/ metrics_tracker'.metrics = metrics_tracker.metrics
             \/ NotLowered(metrics_tracker.metrics,
                           metrics_tracker'.metrics)]_vars

\* an error recorded for an agent that has an iteration
C31_Witness ==
    /\ called = Call("tracker", "record_error", "planner", <<0, 0>>, FALSE)
    /\ tracker.metrics["planner"].iterations = 1
    /\ tracker.metrics["planner"].errors = 1
    /\ tracker.metrics["total"].iterations = 1

\* C35: in every bucket of a tracker, total included, total_tokens is
\* input_tokens + output_tokens.
C35_TotalTokensIsInputPlusOutput ==
    /\ \A b \in DOMAIN tracker.metrics :
          tracker.metrics[b].total_tokens =
             tracker.metrics[b].input_tokens + tracker.metrics[b].output_tokens
    /\ \A b \in DOMAIN metrics_tracker.metrics :
          metrics_tracker.metrics[b].total_tokens =
             metrics_tracker.metrics[b].input_tokens
                + metrics_tracker.metrics[b].output_tokens

\* tokens recorded on the runner's tracker, twice for one agent
C35_Witness ==
    /\ called.on = "metrics_tracker"
    /\ metrics_tracker.metrics["tester"].input_tokens = 4
    /\ metrics_tracker.metrics["tester"].output_tokens = 2
    /\ metrics_tracker.metrics["total"].total_tokens = 6

\* the fields a record_* method writes
FieldsOf(op) ==
    IF op = "record_api_call"
    THEN {"api_calls", "input_tokens", "output_tokens", "total_tokens"}
    ELSE {FieldOf(op)}

\* C36: a record_* call for agent a leaves every bucket other than a and
\* total as it was, leaves in a and in total every field it does not record
\* as it was, and leaves start_time, end_time and session_id as they were.
C36_RecordFrame ==
    [][(nops' = nops + 1 /\ called'.on = "tracker" /\ called'.op \in RecordOps) =>
          LET a == called'.agent
          IN /\ \A b \in DOMAIN tracker.metrics :
                   /\ b \in DOMAIN tracker'.metrics
                   /\ b \notin {a, "total"} =>
                         tracker'.metrics[b] = tracker.metrics[b]
                   /\ \A k \in (DOMAIN tracker.metrics[b]) \ FieldsOf(called'.op) :
                         tracker'.metrics[b][k] = tracker.metrics[b][k]
             /\ DOMAIN tracker'.metrics \subseteq (DOMAIN tracker.metrics) \cup {a}
             /\ tracker'.start_time = tracker.start_time
             /\ tracker'.end_time = tracker.end_time
             /\ tracker'.session_id = tracker.session_id]_vars

\* an iteration recorded for the developer on a tracker that is running and
\* holds counts of the tester
C36_Witness ==
    /\ called = Call("tracker", "record_iteration", "developer", <<0, 0>>, FALSE)
    /\ tracker.start_time # None
    /\ tracker.metrics["tester"].errors = 1
    /\ tracker.metrics["developer"].iterations = 1
    /\ tracker.metrics["developer"].errors = 0

\* the record_* calls with their arguments
RecordCalls ==
    {Call("tracker", op, a, tk, FALSE) :
        op \in RecordOps, a \in AgentArgs, tk \in TokenArgs}

\* the tracker after call c
Apply(self, c) ==
    CASE c.op = "record_api_call" -> record_api_call(self, c.agent, c.tok[1], c.tok[2])
      [] c.op = "record_tool_call" -> record_tool_call(self, c.agent)
      [] c.op = "record_iteration" -> record_iteration(self, c.agent)
      [] c.op = "record_error" -> record_error(self, c.agent)

\* C37: from any state of a tracker, two record_* calls with any agent names
\* give the same buckets and counters in either order.
C37_RecordCallsCommute ==
    \A c1, c2 \in RecordCalls :
        Apply(Apply(tracker, c1), c2).metrics = Apply(Apply(tracker, c2), c1).metrics

\* lines 303-309 on the module's _global_tracker g
reset_global_tracker(g, t) ==
    IF g # None THEN Some(reset(g[1], t)) ELSE Some(MetricsTracker_init(t))

\* C38: after reset every counter of every bucket is zero, start_time and
\* end_time are unset and the duration is 0, the buckets are the ones there
\* were before (auto-created ones included), and a second reset changes no
\* counter and no timestamp; reset_global_tracker does the same to the
\* global tracker.
C38_ResetZeroesAndKeepsBuckets ==
    [][(nops' = nops + 1 /\ called'.op = "reset") =>
          LET again == reset(tracker', now')
              global == reset_global_tracker(Some(tracker), now)[1]
          IN /\ DOMAIN tracker'.metrics = DOMAIN tracker.metrics
             /\ \A b \in DOMAIN tracker'.metrics :
                   \A k \in DOMAIN tracker'.metrics[b] : tracker'.metrics[b][k] = 0
             /\ tracker'.start_time = None
             /\ tracker'.end_time = None
             /\ get_duration(tracker') = 0
             /\ again.metrics = tracker'.metrics
             /\ again.start_time = None
             /\ again.end_time = None
             /\ global.metrics = tracker'.metrics
             /\ global.start_time = None
             /\ global.end_time = None]_vars

\* a reset of a tracker that had a bucket created for an unknown agent
C38_Witness ==
    /\ called.op = "reset"
    /\ "reviewer" \in DOMAIN tracker.metrics
    /\ tracker.metrics["reviewer"].api_calls = 0
    /\ tracker.metrics["total"].total_tokens = 0
    /\ nops = 3

\* C39: with a clock that never goes backwards, the duration a tracker
\* reports is never negative, whatever start_tracking, end_tracking and reset
\* calls were made.
C39_DurationNeverNegative ==
    /\ get_duration(tracker) >= 0
    /\ ~Runner_get_summary_raises(metrics_tracker) =>
          Runner_get_summary(metrics_tracker).execution_time_seconds >= 0

====
